---- MODULE Spec2Model ----
(***************************************************************************)
(* Model of the asynchronous message-processing pipeline of the LINE bot:  *)
(*   - GeminiClient.generateText     (model rotation / retry state machine)*)
(*   - LineWebhookHandler.handleWebhook  (signature check, loading, queue) *)
(*   - LineWebhookHandler.handleQueue    (dispatch, ack / retry, storage)  *)
(*   - TranslationService.translateMessage (one translation)               *)
(*   - PollService and createPollFlexMessage (poll commands and payloads)  *)
(*   - the queue that redelivers the messages handleQueue did not         *)
(*     acknowledge                                                         *)
(* Each part has its own specification: SpecGen, SpecHook, SpecQueue,      *)
(* SpecTranslate, SpecPoll and SpecRedelivery.                             *)
(***************************************************************************)
EXTENDS Integers, Sequences, FiniteSets, TLC

VARIABLES
  \* ---- GeminiClient.generateText (one call) ----
  gPc,         \* "idle" | "call" | "wait" | "returned" | "thrown"
  gRetries,    \* the retries parameter of the call
  gModel,      \* index into GEMINI_MODELS of the outer loop
  gI,          \* inner loop counter i
  gLastError,  \* lastError: [call, status] or NoError
  gLog,        \* the backend calls made so far: [model, attempt, outcome]
  gDelay,      \* milliseconds of the pending setTimeout, NoDelay if none
  gResult,     \* what the call returned or threw
  \* ---- LineWebhookHandler.handleWebhook (one request) ----
  hPc,         \* "idle" | "verify" | "loop" | "send" | "responded"
  hReq,        \* the request: [bypass, signature, events]
  hIdx,        \* position of the for-loop in the events array
  hLoading,    \* startLoadingAnimation calls made: [idx, user, ok]
  hSends,      \* LINE_BOT_QUEUE.send attempts made: [idx, event, ok]
  queue,       \* events the queue accepted, in order
  hResponse,   \* the HTTP response, NoResponse before it is produced
  \* ---- LineWebhookHandler.handleQueue (one queue consumer) ----
  qPc,         \* position of the consumer inside handleQueue / processEvent
  msgBody,     \* message.body of the message being handled
  batchLen,    \* batch.messages.length
  bIdx,        \* position of the for-loop in batch.messages
  thrown,      \* processEvent of the current message raised
  translated,  \* translatedText / translatedPoll of the current message
  deliveries,  \* number of messages delivered so far, over all batches
  users,       \* table users
  rooms,       \* table rooms
  posts,       \* table posts
  answers,     \* table answers
  replies,     \* replyMessage calls made: [token, post, text, flex]
  qLoading,    \* startLoadingAnimation calls made by the consumer
  settleLog,   \* ack() / retry() calls on the messages of the current batch
  outcomeLog,  \* per settled message of the batch: [idx, threw, dup, injected]
  dup,         \* the current message is a text message whose post row exists
  injected,    \* a collaborator call failed while handling the current message
  lastVote,    \* per (poll, voter): the answer of the vote stored last, and the one before
  calls,       \* collaborator calls processEvent made for the current message: [op, res, arg]
  \* ---- TranslationService.translateMessage (one call) ----
  tPc,         \* "idle" | "context" | "generate" | "log" | "update" | "debug" | "returned" | "raised"
  tText,       \* messageText, a sequence of code points
  tLang,       \* sourceLang
  tContext,    \* context: the latest posts, newest first
  tPrompt,     \* prompt
  tCalls,      \* geminiClient.generateText calls made: [prompt, res]
  tModelText,  \* translatedText, the text generateText returned
  tPostText,   \* posts.translated_text of the post postId
  tLogs,       \* rows written to translation_logs and debug_logs
  tFaults,     \* the collaborator calls that failed during this call
  tResult,     \* what translateMessage returned or that it raised
  \* ---- PollService and createPollFlexMessage (pure functions) ----
  pParse,      \* a text and what isPollCommand, parsePollQuestion and the handler make of it
  pReply,      \* the arguments and the result of createPollFlexMessage
  \* ---- the queue between handleWebhook and handleQueue ----
  inQueue,     \* messages sent to the queue and not acknowledged yet, next delivery first
  enqueued,    \* messages ever sent to the queue
  failuresLeft, \* failures the collaborators of the consumer can still have
  \* ---- PostRepository queries behind TranslationService.getContext ----
  cPc,         \* "idle" | "translate": between the post insert and getContext
  cPosts,      \* table posts
  cPost,       \* the post of the message being translated
  cContext,    \* what getContext returned for it, newest first
  \* ---- concurrent invocations of handleQueue on text messages ----
  wPc,         \* per worker: "idle" | "user" | "room" | "post" | "translate" | "pollUpdate" | "reply" | "settle"
  wBody,       \* per worker: the event of the message it handles
  wTranslated, \* per worker: translatedText / translatedPoll
  wThrown,     \* per worker: processEvent raised
  wDelivered,  \* number of deliveries made so far
  wUsers,      \* table users
  wRooms,      \* table rooms
  wPosts,      \* table posts
  wLog         \* the postCreate, translateMessage and replyMessage calls made: [delivery, op, res, post]

genVars  == <<gPc, gRetries, gModel, gI, gLastError, gLog, gDelay, gResult>>
hookVars == <<hPc, hReq, hIdx, hLoading, hSends, queue, hResponse>>
queueVars == <<qPc, msgBody, batchLen, bIdx, thrown, translated, deliveries,
               users, rooms, posts, answers, replies, qLoading,
               settleLog, outcomeLog, dup, injected, lastVote, calls>>
transVars == <<tPc, tText, tLang, tContext, tPrompt, tCalls, tModelText, tPostText,
               tLogs, tFaults, tResult>>
pollVars == <<pParse, pReply>>
redVars  == <<inQueue, enqueued, failuresLeft>>
ctxVars  == <<cPc, cPosts, cPost, cContext>>
workVars == <<wPc, wBody, wTranslated, wThrown, wDelivered, wUsers, wRooms, wPosts, wLog>>
vars     == <<genVars, hookVars, queueVars, transVars, pollVars, redVars, ctxVars, workVars>>

(***************************************************************************)
(* Bounds                                                                  *)
(***************************************************************************)
MaxRetries == 3
MaxEvents  == 2

(***************************************************************************)
(* GeminiClient.generateText                                               *)
(***************************************************************************)
GEMINI_MODELS ==
  <<"gemini-2.5-flash-lite", "gemini-2.5-flash", "gemini-3-flash-preview", "gemma-3-27b-it">>

\* for (const modelName of GEMINI_MODELS): every model of the list
NumModelsWithoutLast == Len(GEMINI_MODELS) - 1

NumModels == Len(GEMINI_MODELS)

\* What one chat.sendMessage / response.text() can do: return text, return
\* an empty text, or raise an error with or without an HTTP status.
Outcomes == {"text", "empty", "e429", "e500", "e503", "e400", "enet"}

Undefined == 0
NoDelay   == -1
NoError   == [call |-> 0, status |-> Undefined]
NoResult  == [kind |-> "none", call |-> 0, model |-> 0]

\* error.response?.status of the error raised for an outcome; the Error thrown
\* for an empty text and a network fault carry no response.
Status(o) ==
  CASE o = "e429" -> 429
    [] o = "e500" -> 500
    [] o = "e503" -> 503
    [] o = "e400" -> 400
    [] OTHER      -> Undefined

\* Math.random() as a fraction k / RandomDen, 0 <= k < RandomDen.
RandomDen     == 10000
RandomSamples == {0, 5000, RandomDen - 1}

\* Math.floor(Math.random() * 3001) + 2000
JitterDelay(k) == ((k * 3001) \div RandomDen) + 2000

RECURSIVE Pow2(_)
Pow2(n) == IF n = 0 THEN 1 ELSE 2 * Pow2(n - 1)

\* Math.pow(2, i + 1) * 1000: the attempt counted from 1
BackoffDelayFromOne(i) == Pow2(i + 1) * 1000

\* Math.pow(2, i) * 1000
BackoffDelay(i) == Pow2(i) * 1000

\* The catch block of the inner loop: what the status of the caught error
\* makes the loop do.
CatchDecisionRetry429(status, i, retries) ==
  IF status \in {429, 500, 503}
    THEN IF i < retries - 1 THEN "retry" ELSE "exhausted"
    ELSE "throw"

CatchDecisionRetryOther(status, i, retries) ==
  IF status = 429 THEN "break"
  ELSE IF i < retries - 1 THEN "retry" ELSE "exhausted"

CatchDecisionNo500(status, i, retries) ==
  IF status = 429 THEN "break"
  ELSE IF status = 503 THEN (IF i < retries - 1 THEN "retry" ELSE "exhausted")
  ELSE "throw"

\* i < retries: one attempt more than the loop bound allows
CatchDecisionOneMore(status, i, retries) ==
  IF status = 429 THEN "break"
  ELSE IF status \in {500, 503} THEN (IF i < retries THEN "retry" ELSE "exhausted")
  ELSE "throw"

CatchDecision(status, i, retries) ==
  IF status = 429 THEN "break"
  ELSE IF status = 503 THEN (IF i < retries - 1 THEN "retry" ELSE "exhausted")
  ELSE IF status = 500 THEN (IF i < retries - 1 THEN "retry" ELSE "exhausted")
  ELSE "throw"

\* The delay awaited before a retry.
RetryDelays(status, i) ==
  IF status = 503 THEN {JitterDelay(k) : k \in RandomSamples}
  ELSE {BackoffDelay(i)}

\* After the inner loop: continue with the next model only when the last
\* error was a 429, otherwise throw lastError.
AfterInnerLoopRotate(lastStatus) == "continue"

AfterInnerLoop(lastStatus) ==
  IF lastStatus = 429 THEN "continue" ELSE "throw"

GenStart(r) ==
  /\ gPc = "idle"
  /\ gPc' = "call"
  /\ gRetries' = r
  /\ gModel' = 1
  /\ gI' = 0
  /\ UNCHANGED <<gLastError, gLog, gDelay, gResult>>

\* Leave the inner loop for model gModel with lastError err.
GenLeaveInner(err) ==
  IF AfterInnerLoop(err.status) = "continue" /\ gModel < NumModels
    THEN /\ gPc' = "call"
         /\ gModel' = gModel + 1
         /\ gI' = 0
         /\ gResult' = gResult
    ELSE /\ gPc' = "thrown"
         /\ gResult' = [kind |-> "error", call |-> err.call, model |-> gModel]
         /\ UNCHANGED <<gModel, gI>>

\* const text = response.text(); if (!text) { throw new Error(...) }
\* return text: only a response with a non-empty text is returned.
ReturnsAnyResponse(o) == o \in {"text", "empty"}

Returns(o) == o = "text"

GenCall(o) ==
  /\ gPc = "call"
  /\ gLog' = Append(gLog, [model |-> gModel, attempt |-> gI, outcome |-> o])
  /\ UNCHANGED gRetries
  /\ IF Returns(o)
       THEN /\ gPc' = "returned"
            /\ gResult' = [kind |-> "text", call |-> Len(gLog) + 1, model |-> gModel]
            /\ UNCHANGED <<gModel, gI, gLastError, gDelay>>
       ELSE LET err == [call |-> Len(gLog) + 1, status |-> Status(o)]
                d   == CatchDecision(err.status, gI, gRetries)
            IN /\ gLastError' = err
               /\ CASE d = "throw" ->
                         /\ gPc' = "thrown"
                         /\ gResult' = [kind |-> "error", call |-> err.call, model |-> gModel]
                         /\ UNCHANGED <<gModel, gI, gDelay>>
                    [] d = "retry" ->
                         /\ gPc' = "wait"
                         /\ gDelay' \in RetryDelays(err.status, gI)
                         /\ UNCHANGED <<gModel, gI, gResult>>
                    [] OTHER ->
                         /\ GenLeaveInner(err)
                         /\ UNCHANGED gDelay

\* The timer fires: continue with the next iteration of the inner loop.
GenWait ==
  /\ gPc = "wait"
  /\ gPc' = "call"
  /\ gI' = gI + 1
  /\ gDelay' = NoDelay
  /\ UNCHANGED <<gRetries, gModel, gLastError, gLog, gResult>>

GenInit ==
  /\ gPc = "idle"
  /\ gRetries = 0
  /\ gModel = 0
  /\ gI = 0
  /\ gLastError = NoError
  /\ gLog = <<>>
  /\ gDelay = NoDelay
  /\ gResult = NoResult

(***************************************************************************)
(* LineWebhookHandler.handleWebhook                                        *)
(***************************************************************************)
NoUser     == "none"
NoHeader   == -2          \* the X-Line-Signature header is absent
EmptyHeader == -1         \* the header is present and empty
SigSpace   == 3           \* number of distinct signature values modelled
CHANNEL_SECRET == 1
NoResponse == [status |-> 0, message |-> "none"]

EventTypes == {"message", "postback", "follow"}
HookEvents == [type : EventTypes, user : {NoUser, "U1"}]

RECURSIVE SeqsUpTo(_, _)
SeqsUpTo(S, n) ==
  IF n = 0 THEN {<<>>}
  ELSE LET shorter == SeqsUpTo(S, n - 1)
       IN shorter \cup {Append(s, e) : s \in {t \in shorter : Len(t) = n - 1}, e \in S}

Requests ==
  [bypass : BOOLEAN,
   signature : {NoHeader, EmptyHeader} \cup (0 .. SigSpace - 1),
   events : SeqsUpTo(HookEvents, MaxEvents)]

TypeCode(t) == CASE t = "message" -> 1 [] t = "postback" -> 2 [] OTHER -> 3

RECURSIVE BodyDigest(_)
BodyDigest(events) ==
  IF events = <<>> THEN 1
  ELSE (BodyDigest(Tail(events)) * 7 + TypeCode(Head(events).type)
        + (IF Head(events).user = NoUser THEN 0 ELSE 4)) % 101

\* HMAC-SHA256 of the raw body under the channel secret, base64 encoded:
\* a keyed digest of the body.
Hmac(secret, events) == (secret * 5 + BodyDigest(events)) % SigSpace

\* LineClient.validateSignature
ValidateSignatureAlways(signature, events, bypass) == TRUE

ValidateSignature(signature, events, bypass) ==
  IF bypass THEN TRUE
  ELSE Hmac(CHANNEL_SECRET, events) = signature

\* The verification block of handleWebhook: the status it answers with, or
\* 0 when the request goes on to the event loop.
VerifyRequest(req) ==
  IF ~req.bypass
    THEN IF req.signature \in {NoHeader, EmptyHeader} THEN 400
         ELSE IF ~ValidateSignature(req.signature, req.events, FALSE) THEN 401
         ELSE 0
    ELSE 0

\* event.type === 'message' && event.source && event.source.userId
WantsLoadingAnyKind(event) == event.user # NoUser

WantsLoading(event) == event.type = "message" /\ event.user # NoUser

\* try { startLoadingAnimation } catch { warn }: the loop goes on to the
\* enqueue whatever the call did.
AfterLoadingSkipOnFailure(ok) == IF ok THEN "send" ELSE "skip"

AfterLoading(ok) == "send"

\* try { LINE_BOT_QUEUE.send } catch { log }: the loop goes on to the next
\* event whatever the call did.
AfterSendThrowOnFailure(ok) == IF ok THEN "next" ELSE "throw"

AfterSend(ok) == "next"

HookReceive(req) ==
  /\ hPc = "idle"
  /\ hReq' = req
  /\ hPc' = "verify"
  /\ UNCHANGED <<hIdx, hLoading, hSends, queue, hResponse>>

HookVerify ==
  /\ hPc = "verify"
  /\ LET status == VerifyRequest(hReq)
     IN IF status = 400
          THEN /\ hPc' = "responded"
               /\ hResponse' = [status |-> 400, message |-> "Bad Request: X-Line-Signature header is missing."]
               /\ UNCHANGED hIdx
        ELSE IF status = 401
          THEN /\ hPc' = "responded"
               /\ hResponse' = [status |-> 401, message |-> "Unauthorized: Invalid LINE signature."]
               /\ UNCHANGED hIdx
        ELSE /\ hPc' = "loop"
             /\ hIdx' = 1
             /\ UNCHANGED hResponse
  /\ UNCHANGED <<hReq, hLoading, hSends, queue>>

HookStartLoading(ok) ==
  /\ hPc = "loop"
  /\ hIdx <= Len(hReq.events)
  /\ WantsLoading(hReq.events[hIdx])
  /\ hLoading' = Append(hLoading, [idx |-> hIdx, user |-> hReq.events[hIdx].user, ok |-> ok])
  /\ IF AfterLoading(ok) = "send"
       THEN hPc' = "send" /\ UNCHANGED hIdx
       ELSE hPc' = "loop" /\ hIdx' = hIdx + 1
  /\ UNCHANGED <<hReq, hSends, queue, hResponse>>

HookNoLoading ==
  /\ hPc = "loop"
  /\ hIdx <= Len(hReq.events)
  /\ ~WantsLoading(hReq.events[hIdx])
  /\ hPc' = "send"
  /\ UNCHANGED <<hReq, hIdx, hLoading, hSends, queue, hResponse>>

HookSend(ok) ==
  /\ hPc = "send"
  /\ hSends' = Append(hSends, [idx |-> hIdx, event |-> hReq.events[hIdx], ok |-> ok])
  /\ queue' = IF ok THEN Append(queue, hReq.events[hIdx]) ELSE queue
  /\ IF AfterSend(ok) = "next"
       THEN /\ hPc' = "loop"
            /\ hIdx' = hIdx + 1
            /\ UNCHANGED hResponse
       ELSE /\ hPc' = "responded"
            /\ hResponse' = [status |-> 500, message |-> "Internal Server Error"]
            /\ UNCHANGED hIdx
  /\ UNCHANGED <<hReq, hLoading>>

\* The for-of loop over webhookRequestBody.events is exhausted: the handler
\* goes on to its return statement, whatever became of the events it sent.
LoopDoneWhenConsumed(req, idx) == idx > Len(req.events) /\ queue = <<>>

LoopDone(req, idx) == idx > Len(req.events)

HookRespond ==
  /\ hPc = "loop"
  /\ LoopDone(hReq, hIdx)
  /\ hPc' = "responded"
  /\ hResponse' = [status |-> 200, message |-> "ok"]
  /\ UNCHANGED <<hReq, hIdx, hLoading, hSends, queue>>

HookInit ==
  /\ hPc = "idle"
  /\ hReq = [bypass |-> FALSE, signature |-> NoHeader, events |-> <<>>]
  /\ hIdx = 0
  /\ hLoading = <<>>
  /\ hSends = <<>>
  /\ queue = <<>>
  /\ hResponse = NoResponse

(***************************************************************************)
(* LineWebhookHandler.handleQueue and the storage it writes                *)
(***************************************************************************)
MaxMessages == 3

Null == "<null>"

\* ---- text helpers: a text is a sequence of one-character strings ----
Marker == <<"[", "c", "h", "e", "c", "k", "]">>

\* case folding of the i flag, for the letters of the marker
ToLower(c) ==
  CASE c = "C" -> "c" [] c = "H" -> "h" [] c = "E" -> "e" [] c = "K" -> "k" [] OTHER -> c

MatchAt(t, p) ==
  /\ p + Len(Marker) - 1 <= Len(t)
  /\ \A j \in 1 .. Len(Marker) : ToLower(t[p + j - 1]) = Marker[j]

\* checkRegex.test(message.text) with checkRegex = /\[check\]/i
HasPoll(t) == \E p \in 1 .. Len(t) : MatchAt(t, p)

\* message.text.replace(checkRegex, ''): the first match is removed
RemoveMarker(t) ==
  IF HasPoll(t)
    THEN LET p == CHOOSE q \in 1 .. Len(t) : MatchAt(t, q) /\ \A r \in 1 .. q - 1 : ~MatchAt(t, r)
         IN SubSeq(t, 1, p - 1) \o SubSeq(t, p + Len(Marker), Len(t))
    ELSE t

RECURSIVE TrimStart(_)
TrimStart(t) == IF t # <<>> /\ Head(t) = " " THEN TrimStart(Tail(t)) ELSE t

RECURSIVE TrimEnd(_)
TrimEnd(t) == IF t # <<>> /\ t[Len(t)] = " " THEN TrimEnd(SubSeq(t, 1, Len(t) - 1)) ELSE t

\* String.prototype.trim
TrimEndOnly(t) == TrimEnd(t)

Trim(t) == TrimEnd(TrimStart(t))

\* ---- the events the queue can deliver ----
TextPlain == <<"h", "i">>
TextPoll  == <<"[", "C", "h", "e", "c", "k", "]", " ", "o", "k", "?">>
TextMarkerOnly == <<" ", "[", "c", "h", "e", "c", "k", "]", " ">>
\* watashi-wa "X": the characters U+79C1 and U+306F, then a quoted name
TextName  == <<"U+79C1", "U+306F", "\"", "X", "\"">>

QEvent(type, user, room, token, ts, msgType, id, text, data) ==
  [type |-> type, user |-> user, room |-> room, replyToken |-> token, timestamp |-> ts,
   msgType |-> msgType, id |-> id, text |-> text, data |-> data]

\* ---- strings that travel as postback data: sequences of characters ----
Vocabulary == {"action", "answer", "vote", "value", "postId", "OK", "NG", "N/A", "M1", "M2", "M3", ""}

\* The characters of a string the model otherwise treats as one value.
Spell(a) ==
  CASE a = "action" -> <<"a", "c", "t", "i", "o", "n">>
    [] a = "answer" -> <<"a", "n", "s", "w", "e", "r">>
    [] a = "vote" -> <<"v", "o", "t", "e">>
    [] a = "value" -> <<"v", "a", "l", "u", "e">>
    [] a = "postId" -> <<"p", "o", "s", "t", "I", "d">>
    [] a = "OK" -> <<"O", "K">>
    [] a = "NG" -> <<"N", "G">>
    [] a = "N/A" -> <<"N", "/", "A">>
    [] a = "M1" -> <<"M", "1">>
    [] a = "M2" -> <<"M", "2">>
    [] a = "M3" -> <<"M", "3">>
    [] OTHER -> <<>>

\* The string whose characters are cs.
Unspell(cs) ==
  IF \E a \in Vocabulary : Spell(a) = cs
    THEN CHOOSE a \in Vocabulary : Spell(a) = cs
    ELSE "<other>"

\* The data of an answer button:
\* `action=answer&value=${value}&postId=${originalPostId}`
VoteDataSpecFormat(value, postId) ==
  Spell("action") \o <<"=">> \o Spell("vote") \o <<"&">> \o Spell("postId") \o <<"=">>
    \o Spell(postId) \o <<"&">> \o Spell("answer") \o <<"=">> \o Spell(value)

VoteData(value, postId) ==
  Spell("action") \o <<"=">> \o Spell("answer") \o <<"&">> \o Spell("value") \o <<"=">>
    \o Spell(value) \o <<"&">> \o Spell("postId") \o <<"=">> \o Spell(postId)

\* The three answer buttons of createPollFlexMessage(originalPostId, baseUrl)
\* and its link to the results page.
Choices == <<"OK", "NG", "N/A">>

CreatePollFlexMessageFixedDomain(originalPostId, baseUrl) ==
  [type    |-> "flex",
   buttons |-> [k \in 1 .. Len(Choices) |->
                  [type |-> "postback", label |-> Choices[k],
                   data |-> VoteData(Choices[k], originalPostId)]],
   links   |-> <<[type |-> "uri", label |-> "See results",
                  uri |-> <<"https://your-worker-domain.com", "/poll/", originalPostId>>]>>]

CreatePollFlexMessage(originalPostId, baseUrl) ==
  [type    |-> "flex",
   buttons |-> [k \in 1 .. Len(Choices) |->
                  [type |-> "postback", label |-> Choices[k],
                   data |-> VoteData(Choices[k], originalPostId)]],
   links   |-> <<[type |-> "uri", label |-> "See results",
                  uri |-> <<baseUrl, "/poll/", originalPostId>>]>>]

QEvents ==
  { QEvent("message", "U1", Null, "rt1", 1, "text", "M1", TextPlain, <<>>),
    QEvent("message", "U1", "R1", "rt2", 2, "text", "M2", TextPoll, <<>>),
    QEvent("message", NoUser, Null, "rt3", 3, "text", "M3", TextPlain, <<>>),
    QEvent("postback", "U2", "R1", "rt4", 4, Null, Null, <<>>, VoteData("OK", "M2")),
    QEvent("postback", "U2", "R1", "rt5", 5, Null, Null, <<>>, VoteData("NG", "M2")),
    QEvent("postback", "U2", "R1", "rt6", 6, Null, Null, <<>>,
           Spell("action") \o <<"=">> \o Spell("answer") \o <<"&">> \o Spell("postId") \o <<"=">> \o Spell("M2")),
    QEvent("postback", "U1", "R1", "rt8", 8, Null, Null, <<>>,
           CreatePollFlexMessage("M2", "https://bot").buttons[3].data),
    QEvent("follow", "U2", Null, "rt7", 7, Null, Null, <<>>, <<>>),
    QEvent("message", "U2", "R1", "rt9", 9, "text", "M4", TextMarkerOnly, <<>>),
    QEvent("message", "U2", Null, "rt10", 10, "text", "M5", TextName, <<>>) }

NoEvent == QEvent(Null, NoUser, Null, Null, 0, Null, Null, <<>>, <<>>)

\* getSourceId: the group or room id of the source, null for a user source
GetSourceId(event) == event.room

\* The position of the first c in cs, 0 when there is none.
IndexOf(cs, c) ==
  IF \E k \in DOMAIN cs : cs[k] = c
    THEN CHOOSE k \in DOMAIN cs : cs[k] = c /\ \A j \in 1 .. k - 1 : cs[j] # c
    ELSE 0

\* cs.split(sep)
RECURSIVE Split(_, _)
Split(cs, sep) ==
  LET k == IndexOf(cs, sep)
  IN IF k = 0 THEN <<cs>>
     ELSE <<SubSeq(cs, 1, k - 1)>> \o Split(SubSeq(cs, k + 1, Len(cs)), sep)

\* application/x-www-form-urlencoded decoding of a name or value: a plus
\* sign stands for a space (the strings modelled hold no percent sign).
FormDecode(cs) == [k \in 1 .. Len(cs) |-> IF cs[k] = "+" THEN " " ELSE cs[k]]

\* new URLSearchParams(data): the name-value pairs of the non-empty
\* segments between ampersands, each split at its first equals sign.
RECURSIVE PairsOf(_)
PairsOf(segments) ==
  IF segments = <<>> THEN <<>>
  ELSE LET seg == Head(segments)
           k   == IndexOf(seg, "=")
           pair == IF k = 0 THEN <<FormDecode(seg), <<>>>>
                   ELSE <<FormDecode(SubSeq(seg, 1, k - 1)), FormDecode(SubSeq(seg, k + 1, Len(seg)))>>
       IN (IF seg = <<>> THEN <<>> ELSE <<pair>>) \o PairsOf(Tail(segments))

URLSearchParams(data) == PairsOf(Split(data, "&"))

\* new URLSearchParams(data).get(key): the first value of the key, or null
ParamsGet(data, key) ==
  LET pairs == URLSearchParams(data)
      hits  == {k \in DOMAIN pairs : pairs[k][1] = Spell(key)}
  IN IF hits = {} THEN Null
     ELSE Unspell(pairs[CHOOSE k \in hits : \A j \in hits : k <= j][2])

Truthy(v) == v # Null /\ v # ""

\* ---- storage ----
\* INSERT ... ON CONFLICT(user_id) DO UPDATE SET display_name, as
\* UserRepository.upsert does
UserUpsert(tbl, row) ==
  {r \in tbl : r.user_id # row.user_id} \cup {row}

\* UserRepository.createIfNotExists: INSERT OR IGNORE INTO users
UserCreateIfNotExists(tbl, row) ==
  IF \E r \in tbl : r.user_id = row.user_id THEN tbl ELSE tbl \cup {row}

\* RoomRepository.upsert: INSERT ... ON CONFLICT(room_id) DO UPDATE SET room_name
RoomUpsert(tbl, row) ==
  {r \in tbl : r.room_id # row.room_id} \cup {row}

\* INSERT OR REPLACE INTO posts: the stored row gives way, nothing fails
PostCreateOrReplace(tbl, row) ==
  [ok |-> TRUE, tbl |-> {r \in tbl : r.post_id # row.post_id} \cup {row}]

\* PostRepository.create: a plain INSERT into posts, whose post_id is the
\* PRIMARY KEY: the statement fails when the id is already stored.
PostCreate(tbl, row) ==
  IF \E r \in tbl : r.post_id = row.post_id
    THEN [ok |-> FALSE, tbl |-> tbl]
    ELSE [ok |-> TRUE, tbl |-> tbl \cup {row}]

\* PostRepository.updateTranslatedText: UPDATE posts SET translated_text
PostUpdateTranslatedText(tbl, postId, text) ==
  {IF r.post_id = postId THEN [r EXCEPT !.translated_text = text] ELSE r : r \in tbl}

\* AnswerRepository.upsert: INSERT ... ON CONFLICT(poll_post_id, user_id)
\* DO UPDATE SET timestamp, answer_value
AnswerUpsertKeepFirst(tbl, row) ==
  IF \E r \in tbl : r.poll_post_id = row.poll_post_id /\ r.user_id = row.user_id
    THEN tbl ELSE tbl \cup {row}

AnswerUpsert(tbl, row) ==
  IF \E r \in tbl : r.poll_post_id = row.poll_post_id /\ r.user_id = row.user_id
    THEN {IF r.poll_post_id = row.poll_post_id /\ r.user_id = row.user_id
            THEN [r EXCEPT !.timestamp = row.timestamp, !.answer_value = row.answer_value]
            ELSE r : r \in tbl}
    ELSE tbl \cup {row}

\* ---- handleQueue ----
CalledWith(op, res, arg) == Append(calls, [op |-> op, res |-> res, arg |-> arg])

Called(op, res) == CalledWith(op, res, <<>>)

OkFail(ok) == IF ok THEN "ok" ELSE "fail"

\* catch (e) { console.error; message.retry() }: the error is swallowed and
\* the for-loop goes on to the next message of the batch.
AfterCatchRethrow(threw) == IF threw THEN "abort" ELSE "next"

AfterCatch(threw) == "next"

\* try { processEvent; message.ack() } catch { message.retry() }
SettleCallsAckAlways(threw) == IF threw THEN <<"retry", "ack">> ELSE <<"ack">>

SettleCalls(threw) == IF threw THEN <<"retry">> ELSE <<"ack">>

CurEvent == msgBody

PostRow(event) ==
  [post_id |-> event.id, timestamp |-> event.timestamp, user_id |-> event.user,
   room_id |-> GetSourceId(event), message_text |-> event.text,
   has_poll |-> IF HasPoll(event.text) THEN 1 ELSE 0, translated_text |-> Null]

storeVars == <<users, rooms, posts, answers>>

\* The text handed to translateMessage: pollContent, which is
\* message.text.replace(checkRegex, '').trim(), in the poll branch and
\* message.text in the other.
TextToTranslate(text) == IF HasPoll(text) THEN Trim(RemoveMarker(text)) ELSE text

\* processEvent returns normally
QComplete ==
  /\ qPc' = "settle"
  /\ thrown' = FALSE

\* processEvent raises
QRaise ==
  /\ qPc' = "settle"
  /\ thrown' = TRUE

\* The queue hands a batch of n messages to the consumer.  The body of a
\* message is drawn when the loop reaches it.
QDeliver(n) ==
  /\ qPc = "idle"
  /\ deliveries + n <= MaxMessages
  /\ deliveries' = deliveries + n
  /\ batchLen' = n
  /\ bIdx' = 1
  /\ qPc' = "fetch"
  /\ settleLog' = <<>>
  /\ outcomeLog' = <<>>
  /\ UNCHANGED <<msgBody, thrown, translated, storeVars, replies, qLoading, dup, injected,
                 lastVote, calls>>

\* const event = message.body, for the next message of the batch
QFetch(e) ==
  /\ qPc = "fetch"
  /\ bIdx <= batchLen
  /\ msgBody' = e
  /\ qPc' = "dispatch"
  /\ UNCHANGED <<batchLen, bIdx, thrown, translated, deliveries, storeVars, replies,
                 qLoading, settleLog, outcomeLog, dup, injected, lastVote, calls>>

\* processEvent: the switch on event.type, and the synchronous guards of the
\* handler it selects.
QDispatch ==
  /\ qPc = "dispatch"
  /\ injected' = FALSE
  /\ translated' = Null
  /\ dup' = (/\ CurEvent.type = "message" /\ CurEvent.user # NoUser /\ CurEvent.msgType = "text"
             /\ \E r \in posts : r.post_id = CurEvent.id)
  /\ IF CurEvent.type = "message"
       THEN IF CurEvent.user = NoUser
              THEN QComplete
              ELSE qPc' = "user" /\ UNCHANGED thrown
     ELSE IF CurEvent.type = "postback"
       THEN IF /\ ParamsGet(CurEvent.data, "action") = "answer"
               /\ CurEvent.user # NoUser
               /\ Truthy(ParamsGet(CurEvent.data, "value"))
               /\ Truthy(ParamsGet(CurEvent.data, "postId"))
              THEN qPc' = "voteLoading" /\ UNCHANGED thrown
              ELSE QComplete
     ELSE QComplete
  /\ calls' = <<>>
  /\ UNCHANGED <<msgBody, batchLen, bIdx, deliveries, storeVars, replies, qLoading,
                 settleLog, outcomeLog, lastVote>>

\* await userRepository.createIfNotExists({ user_id, display_name: "" })
QEnsureUser(ok) ==
  /\ qPc = "user"
  /\ calls' = Called("createIfNotExists", OkFail(ok))
  /\ IF ok
       THEN /\ users' = UserCreateIfNotExists(users, [user_id |-> CurEvent.user, display_name |-> ""])
            /\ qPc' = IF GetSourceId(CurEvent) # Null THEN "room"
                      ELSE IF CurEvent.msgType = "text" THEN "post" ELSE "settle"
            /\ thrown' = FALSE
            /\ UNCHANGED injected
       ELSE /\ QRaise
            /\ injected' = TRUE
            /\ UNCHANGED users
  /\ UNCHANGED <<msgBody, batchLen, bIdx, translated, deliveries, rooms, posts, answers,
                 replies, qLoading, settleLog, outcomeLog, dup, lastVote>>

\* await roomRepository.upsert({ room_id: sourceId, room_name: null })
QEnsureRoom(ok) ==
  /\ qPc = "room"
  /\ calls' = Called("roomUpsert", OkFail(ok))
  /\ IF ok
       THEN /\ rooms' = RoomUpsert(rooms, [room_id |-> GetSourceId(CurEvent), room_name |-> Null])
            /\ qPc' = IF CurEvent.msgType = "text" THEN "post" ELSE "settle"
            /\ thrown' = FALSE
            /\ UNCHANGED injected
       ELSE /\ QRaise
            /\ injected' = TRUE
            /\ UNCHANGED rooms
  /\ UNCHANGED <<msgBody, batchLen, bIdx, translated, deliveries, users, posts, answers,
                 replies, qLoading, settleLog, outcomeLog, dup, lastVote>>

\* await postRepository.create({...}); then the branch on hasPoll
QCreatePost(ok) ==
  /\ qPc = "post"
  /\ calls' = Called("postCreate", OkFail(ok /\ PostCreate(posts, PostRow(CurEvent)).ok))
  /\ LET res == PostCreate(posts, PostRow(CurEvent))
     IN IF ok /\ res.ok
          THEN /\ posts' = res.tbl
               /\ thrown' = FALSE
               /\ qPc' = IF HasPoll(CurEvent.text) /\ TextToTranslate(CurEvent.text) = <<>>
                           THEN (IF CurEvent.replyToken # Null THEN "reply" ELSE "settle")
                           ELSE "translate"
               /\ UNCHANGED injected
          ELSE /\ QRaise
               /\ injected' = (injected \/ ~ok)
               /\ UNCHANGED posts
  /\ UNCHANGED <<msgBody, batchLen, bIdx, translated, deliveries, users, rooms, answers,
                 replies, qLoading, settleLog, outcomeLog, dup, lastVote>>

\* The poll branch: try { translateMessage; updateTranslatedText }
\* catch (e) { console.error }: a rejection of either call is swallowed.
PollCatchRethrow(step) == "raise"

PollCatch(step) == "continue"

\* if (translatedText && event.replyToken), in the branch without a poll
ShouldReplyAlways(translatedText, replyToken) == replyToken # Null

ShouldReply(translatedText, replyToken) == Truthy(translatedText) /\ replyToken # Null

\* await translationService.translateMessage(id, userId, sourceId, text):
\* it returns the model's text after storing it as the post's translated
\* text, returns null, or raises (its context read and its debug log are
\* outside its try block).
QTranslate(outcome) ==
  /\ qPc = "translate"
  /\ calls' = CalledWith("translateMessage", outcome, TextToTranslate(CurEvent.text))
  /\ posts' = IF outcome = "text"
                THEN PostUpdateTranslatedText(posts, CurEvent.id, "translation")
                ELSE posts
  /\ IF HasPoll(CurEvent.text)
       THEN \* try { translatedPoll = await translate; await update } catch { log }
            /\ translated' = IF outcome = "text" THEN "translation"
                             ELSE IF outcome = "null" THEN Null ELSE ""
            /\ injected' = (injected \/ outcome = "throw")
            /\ IF outcome = "throw" /\ PollCatch("translateMessage") # "continue"
                 THEN QRaise
                 ELSE /\ thrown' = FALSE
                      /\ qPc' = IF outcome = "throw"
                                  THEN (IF CurEvent.replyToken # Null THEN "reply" ELSE "settle")
                                  ELSE "pollUpdate"
       ELSE /\ translated' = IF outcome = "text" THEN "translation" ELSE Null
            /\ IF outcome = "throw"
                 THEN QRaise /\ injected' = TRUE
                 ELSE /\ thrown' = FALSE
                      /\ UNCHANGED injected
                      /\ qPc' = IF ShouldReply(IF outcome = "text" THEN "translation" ELSE Null,
                                                CurEvent.replyToken)
                                  THEN "reply" ELSE "settle"
  /\ UNCHANGED <<msgBody, batchLen, bIdx, deliveries, users, rooms, answers,
                 replies, qLoading, settleLog, outcomeLog, dup, lastVote>>

\* await postRepository.updateTranslatedText(message.id, translatedPoll),
\* inside the try block of the poll branch
QPollUpdate(ok) ==
  /\ qPc = "pollUpdate"
  /\ calls' = Called("updateTranslatedText", OkFail(ok))
  /\ posts' = IF ok THEN PostUpdateTranslatedText(posts, CurEvent.id, translated) ELSE posts
  /\ injected' = (injected \/ ~ok)
  /\ IF ~ok /\ PollCatch("updateTranslatedText") # "continue"
       THEN QRaise
       ELSE /\ thrown' = FALSE
            /\ qPc' = IF CurEvent.replyToken # Null THEN "reply" ELSE "settle"
  /\ UNCHANGED <<msgBody, batchLen, bIdx, translated, deliveries, users, rooms, answers,
                 replies, qLoading, settleLog, outcomeLog, dup, lastVote>>

\* await lineClient.replyMessage(event.replyToken, messages)
QReply(ok) ==
  /\ qPc = "reply"
  /\ calls' = Called("replyMessage", OkFail(ok))
  /\ replies' = replies \cup
       {[token |-> CurEvent.replyToken, post |-> CurEvent.id,
         text |-> IF Truthy(translated) THEN translated ELSE Null,
         flex |-> HasPoll(CurEvent.text)]}
  /\ IF ok THEN QComplete /\ UNCHANGED injected
           ELSE QRaise /\ injected' = TRUE
  /\ UNCHANGED <<msgBody, batchLen, bIdx, translated, deliveries, storeVars,
                 qLoading, settleLog, outcomeLog, dup, lastVote>>

\* The messages of a replyMessage call: the translated text when there is
\* one, then the flex message in the poll branch.
ReplyMessages(r) ==
  (IF r.text # Null THEN <<[type |-> "text", text |-> r.text]>> ELSE <<>>)
    \o (IF r.flex THEN <<[type |-> "flex", text |-> Null]>> ELSE <<>>)

\* try { await lineClient.startLoadingAnimation(userId, 5) } catch { warn }
QVoteLoading(ok) ==
  /\ qPc = "voteLoading"
  /\ calls' = Called("startLoadingAnimation", OkFail(ok))
  /\ qLoading' = qLoading \cup {[user |-> CurEvent.user, seconds |-> 5]}
  /\ qPc' = "voteUpsert"
  /\ UNCHANGED <<msgBody, batchLen, bIdx, thrown, translated, deliveries, storeVars,
                 replies, settleLog, outcomeLog, dup, injected, lastVote>>

\* crypto.randomUUID(): an id no stored row has
FreshUuid(tbl) == CHOOSE n \in 1 .. Cardinality(tbl) + 1 : \A r \in tbl : r.answer_id # n

\* The vote of (poll, voter) stored last, with the answer it replaced.
RecordVote(votes, poll, voter, answer) ==
  {v \in votes : ~(v.poll = poll /\ v.voter = voter)} \cup
    {[poll |-> poll, voter |-> voter, answer |-> answer,
      prev |-> IF \E v \in votes : v.poll = poll /\ v.voter = voter
                 THEN (CHOOSE v \in votes : v.poll = poll /\ v.voter = voter).answer
                 ELSE Null]}

\* await answerRepository.upsert({ answer_id: crypto.randomUUID(), ... })
QVoteUpsert(ok) ==
  /\ qPc = "voteUpsert"
  /\ calls' = Called("answerUpsert", OkFail(ok))
  /\ LET row == [answer_id |-> FreshUuid(answers), timestamp |-> CurEvent.timestamp,
                 poll_post_id |-> ParamsGet(CurEvent.data, "postId"),
                 user_id |-> CurEvent.user,
                 answer_value |-> ParamsGet(CurEvent.data, "value")]
     IN IF ok
          THEN /\ answers' = AnswerUpsert(answers, row)
               /\ lastVote' = RecordVote(lastVote, row.poll_post_id, row.user_id, row.answer_value)
               /\ QComplete
               /\ UNCHANGED injected
          ELSE /\ QRaise
               /\ injected' = TRUE
               /\ UNCHANGED <<answers, lastVote>>
  /\ UNCHANGED <<msgBody, batchLen, bIdx, translated, deliveries, users, rooms, posts,
                 replies, qLoading, settleLog, outcomeLog, dup>>

\* message.ack() or message.retry(), then the next message of the batch
QSettle ==
  /\ qPc = "settle"
  /\ settleLog' = settleLog \o [k \in 1 .. Len(SettleCalls(thrown)) |->
                                  [idx |-> bIdx, how |-> SettleCalls(thrown)[k]]]
  /\ outcomeLog' = Append(outcomeLog, [idx |-> bIdx, threw |-> thrown, dup |-> dup,
                                       injected |-> injected])
  /\ bIdx' = IF AfterCatch(thrown) = "next" THEN bIdx + 1 ELSE batchLen + 1
  /\ qPc' = "fetch"
  /\ thrown' = FALSE
  /\ translated' = Null
  /\ dup' = FALSE
  /\ injected' = FALSE
  /\ msgBody' = NoEvent
  /\ calls' = <<>>
  /\ UNCHANGED <<batchLen, deliveries, storeVars, replies, qLoading, lastVote>>

\* handleQueue returns: the batch and the locals of the invocation are gone
QBatchDone ==
  /\ qPc = "fetch"
  /\ bIdx > batchLen
  /\ qPc' = "idle"
  /\ batchLen' = 0
  /\ bIdx' = 1
  /\ settleLog' = <<>>
  /\ outcomeLog' = <<>>
  /\ UNCHANGED <<msgBody, thrown, translated, deliveries, storeVars, replies,
                 qLoading, dup, injected, lastVote, calls>>

\* The locals of handleQueue and the tables other than rooms
ConsumerInit ==
  /\ qPc = "idle"
  /\ msgBody = NoEvent
  /\ batchLen = 0
  /\ bIdx = 1
  /\ thrown = FALSE
  /\ translated = Null
  /\ deliveries = 0
  /\ users = {}
  /\ posts = {}
  /\ answers = {}
  /\ replies = {}
  /\ qLoading = {}
  /\ settleLog = <<>>
  /\ outcomeLog = <<>>
  /\ dup = FALSE
  /\ injected = FALSE
  /\ lastVote = {}
  /\ calls = <<>>

QueueInit == ConsumerInit /\ rooms = {}

(***************************************************************************)
(* TranslationService.translateMessage                                     *)
(***************************************************************************)
MaxTextLen == 2

CONTEXT_LIMIT == 2

\* Code points of the characters a message is made of: an exclamation
\* mark, a, o-acute, hiragana a, katakana a, and the last ideograph of the
\* range the detection tests.
Chars == {33, 97, 243, 12354, 12450, 40879}

\* /[\u3040-\u309F\u30A0-\u30FF\u4E00-\u9FAF]/: hiragana, katakana, ideographs
IsJapanese(c) ==
  \/ (12352 <= c /\ c <= 12447)
  \/ (12448 <= c /\ c <= 12543)
  \/ (19968 <= c /\ c <= 40879)

\* The letters of the Polish character class, by code point.
PolishLetters ==
  {261, 263, 281, 322, 324, 243, 347, 378, 380, 260, 262, 280, 321, 323, 211, 346, 377, 379}

\* detectLanguage: the Japanese test comes first, then the Polish one
DetectLanguagePolishFirst(text) ==
  IF \E k \in DOMAIN text : text[k] \in PolishLetters THEN "pl"
  ELSE IF \E k \in DOMAIN text : IsJapanese(text[k]) THEN "ja"
  ELSE "en"

DetectLanguage(text) ==
  IF \E k \in DOMAIN text : IsJapanese(text[k]) THEN "ja"
  ELSE IF \E k \in DOMAIN text : text[k] \in PolishLetters THEN "pl"
  ELSE "en"

Texts == SeqsUpTo(Chars, MaxTextLen) \ {<<>>}

\* What findLatestPostsByRoomId / findLatestPostsByUserId can return: the
\* message texts of at most CONTEXT_LIMIT posts, newest first.
StoredTexts == <<"newest", "older", "oldest">>

Contexts == {SubSeq(StoredTexts, 1, n) : n \in 0 .. CONTEXT_LIMIT}

\* The context left in the order it was fetched
ReverseKeepOrder(q) == q

\* [...context].reverse()
Reverse(q) == [k \in 1 .. Len(q) |-> q[Len(q) + 1 - k]]

\* chronologicalContext.forEach((post, index) => prompt += (index + 1) + '. '
\* + post.message_text + '\n'): the numbered lines of the context section.
ContextLines(context) ==
  LET chronologicalContext == Reverse(context)
  IN [k \in 1 .. Len(chronologicalContext) |->
        LET index == k - 1
        IN [number |-> index + 1, text |-> chronologicalContext[k]]]

\* createTranslationPrompt: what the prompt asks for, the output format it
\* prescribes, the context turns oldest first and the text to translate.
CreateTranslationPromptEnglishOnly(messageText, context, sourceLang) ==
  [targets |-> IF sourceLang = "ja" THEN {"en"} ELSE {"ja"},
   format  |-> IF sourceLang = "ja" THEN <<"English">> ELSE <<>>,
   context |-> Reverse(context),
   lines   |-> ContextLines(context),
   text    |-> messageText,
   contextHint |-> (Len(context) > 0)]

CreateTranslationPrompt(messageText, context, sourceLang) ==
  [targets |-> IF sourceLang = "ja" THEN {"en", "pl"} ELSE {"ja"},
   format  |-> IF sourceLang = "ja" THEN <<"Polish", "English">> ELSE <<>>,
   context |-> Reverse(context),
   lines   |-> ContextLines(context),
   text    |-> messageText,
   contextHint |-> (Len(context) > 0)]

NoPrompt == [targets |-> {}, format |-> <<>>, context |-> <<>>, lines |-> <<>>, text |-> <<>>,
             contextHint |-> FALSE]

NoOutcome == [kind |-> "none", value |-> Null]

\* Texts generateText can return (it never returns an empty text).
ModelTexts == {"Polish: czesc / English: hi", "konnichiwa"}

\* The try block after generateText returned translatedText: the row of
\* translation_logs, the text stored on the post and the text returned.
OnTranslatedDropText(translatedText, lang, text, prompt, context) ==
  [log    |-> [table |-> "translation_logs", language |-> lang, original_message |-> text,
               translation |-> translatedText, prompt |-> prompt,
               history_count |-> Len(context)],
   stored |-> Null,
   result |-> translatedText]

OnTranslated(translatedText, lang, text, prompt, context) ==
  [log    |-> [table |-> "translation_logs", language |-> lang, original_message |-> text,
               translation |-> translatedText, prompt |-> prompt,
               history_count |-> Len(context)],
   stored |-> translatedText,
   result |-> translatedText]

\* try { generateText; createTranslationLog; updateTranslatedText } catch:
\* where a rejection of one of the three awaited calls takes the control.
CatchTargetRetryModel(step) == IF step = "generateText" THEN "generate" ELSE "debug"

CatchTarget(step) == "debug"

\* catch (error) { createDebugLog; return null }: what the catch block of
\* translateMessage hands back.
OnFailureRethrow(modelFailed) == IF modelFailed THEN "raise" ELSE "null"

OnFailure(modelFailed) == "null"

TransStart(text) ==
  /\ tPc = "idle"
  /\ tText' = text
  /\ tLang' = DetectLanguage(text)
  /\ IF DetectLanguage(text) \notin {"ja", "en", "pl"}
       THEN tPc' = "returned" /\ tResult' = [kind |-> "value", value |-> Null]
       ELSE tPc' = "context" /\ UNCHANGED tResult
  /\ UNCHANGED <<tContext, tPrompt, tCalls, tModelText, tPostText, tLogs, tFaults>>

\* const context = await this.getContext(userId, roomId), outside the try
\* block; then the prompt is built.
TransGetContext(ctx, ok) ==
  /\ tPc = "context"
  /\ IF ok
       THEN /\ tContext' = ctx
            /\ tPrompt' = CreateTranslationPrompt(tText, ctx, tLang)
            /\ tPc' = "generate"
            /\ UNCHANGED <<tFaults, tResult>>
       ELSE /\ tPc' = "raised"
            /\ tFaults' = tFaults \cup {"getContext"}
            /\ tResult' = [kind |-> "raise", value |-> Null]
            /\ UNCHANGED <<tContext, tPrompt>>
  /\ UNCHANGED <<tText, tLang, tCalls, tModelText, tPostText, tLogs>>

\* await this.geminiClient.generateText(prompt): a text, or an exception
TransGenerate(res) ==
  /\ tPc = "generate"
  /\ tCalls' = Append(tCalls, [prompt |-> tPrompt, res |-> res])
  /\ IF res \in ModelTexts
       THEN /\ tModelText' = res
            /\ tPc' = "log"
            /\ UNCHANGED tFaults
       ELSE /\ tFaults' = tFaults \cup {"generateText"}
            /\ tPc' = CatchTarget("generateText")
            /\ UNCHANGED tModelText
  /\ UNCHANGED <<tText, tLang, tContext, tPrompt, tPostText, tLogs, tResult>>

\* await this.logRepository.createTranslationLog({...})
TransLog(ok) ==
  /\ tPc = "log"
  /\ IF ok
       THEN /\ tLogs' = Append(tLogs, OnTranslated(tModelText, tLang, tText, tPrompt, tContext).log)
            /\ tPc' = "update"
            /\ UNCHANGED tFaults
       ELSE /\ tFaults' = tFaults \cup {"createTranslationLog"}
            /\ tPc' = CatchTarget("createTranslationLog")
            /\ UNCHANGED tLogs
  /\ UNCHANGED <<tText, tLang, tContext, tPrompt, tCalls, tModelText, tPostText, tResult>>

\* await this.postRepository.updateTranslatedText(postId, translatedText);
\* return translatedText
TransUpdate(ok) ==
  /\ tPc = "update"
  /\ IF ok
       THEN LET r == OnTranslated(tModelText, tLang, tText, tPrompt, tContext)
            IN /\ tPostText' = r.stored
               /\ tResult' = [kind |-> "value", value |-> r.result]
               /\ tPc' = "returned"
               /\ UNCHANGED tFaults
       ELSE /\ tFaults' = tFaults \cup {"updateTranslatedText"}
            /\ tPc' = CatchTarget("updateTranslatedText")
            /\ UNCHANGED <<tPostText, tResult>>
  /\ UNCHANGED <<tText, tLang, tContext, tPrompt, tCalls, tModelText, tLogs>>

\* The catch block: await createDebugLog({...}); return null.  The await
\* is not protected: when it rejects, translateMessage rejects.
TransDebug(ok) ==
  /\ tPc = "debug"
  /\ IF ok
       THEN /\ tLogs' = Append(tLogs, [table |-> "debug_logs"])
            /\ IF OnFailure("generateText" \in tFaults) = "null"
                 THEN tPc' = "returned" /\ tResult' = [kind |-> "value", value |-> Null]
                 ELSE tPc' = "raised" /\ tResult' = [kind |-> "raise", value |-> Null]
            /\ UNCHANGED tFaults
       ELSE /\ tFaults' = tFaults \cup {"createDebugLog"}
            /\ tPc' = "raised"
            /\ tResult' = [kind |-> "raise", value |-> Null]
            /\ UNCHANGED tLogs
  /\ UNCHANGED <<tText, tLang, tContext, tPrompt, tCalls, tModelText, tPostText>>

TransInit ==
  /\ tPc = "idle"
  /\ tText = <<>>
  /\ tLang = Null
  /\ tContext = <<>>
  /\ tPrompt = NoPrompt
  /\ tCalls = <<>>
  /\ tModelText = Null
  /\ tPostText = Null
  /\ tLogs = <<>>
  /\ tFaults = {}
  /\ tResult = NoOutcome

(***************************************************************************)
(* PollService.isPollCommand / parsePollQuestion, the marker handling of   *)
(* handleMessageEvent, and createPollFlexMessage, applied to given inputs  *)
(***************************************************************************)
MaxPieces == 3

\* The texts are made of at most MaxPieces pieces: the marker, the marker in
\* mixed case, a space and a letter.
PollPieces == {Marker, <<"[", "C", "h", "e", "c", "k", "]">>, <<" ">>, <<"a">>}

RECURSIVE Concat(_)
Concat(ps) == IF ps = <<>> THEN <<>> ELSE Head(ps) \o Concat(Tail(ps))

PollTexts == {Concat(ps) : ps \in SeqsUpTo(PollPieces, MaxPieces)}

PollPostIds == {"M1", "M2", "M3"}

BaseUrls == {"https://bot", "https://example.com"}

NoParse == [text |-> <<>>, applied |-> FALSE]
NoReply == [postId |-> Null, baseUrl |-> Null, applied |-> FALSE]

\* messageText.startsWith('[check]')
IsPollCommand(messageText) ==
  /\ Len(messageText) >= Len(Marker)
  /\ SubSeq(messageText, 1, Len(Marker)) = Marker

\* The marker, letter for letter, at position p of t.
ExactAt(t, p) ==
  /\ p + Len(Marker) - 1 <= Len(t)
  /\ SubSeq(t, p, p + Len(Marker) - 1) = Marker

\* messageText.replace('[check]', '').trim(): the first occurrence of the
\* string, compared exactly, is removed.
ParsePollQuestion(messageText) ==
  IF \E p \in 1 .. Len(messageText) : ExactAt(messageText, p)
    THEN LET p == CHOOSE q \in 1 .. Len(messageText) :
                    ExactAt(messageText, q) /\ \A r \in 1 .. q - 1 : ~ExactAt(messageText, r)
         IN Trim(SubSeq(messageText, 1, p - 1)
                   \o SubSeq(messageText, p + Len(Marker), Len(messageText)))
    ELSE Trim(messageText)

\* The two functions of PollService and the two expressions of
\* handleMessageEvent, applied to one text.
PollParse(text) ==
  /\ pParse' = [text |-> text, applied |-> TRUE,
                isPollCommand |-> IsPollCommand(text),
                question |-> ParsePollQuestion(text),
                hasPoll |-> HasPoll(text),
                pollContent |-> Trim(RemoveMarker(text))]
  /\ UNCHANGED pReply

\* createPollFlexMessage(originalPostId, baseUrl)
PollBuild(postId, baseUrl) ==
  /\ pReply' = [postId |-> postId, baseUrl |-> baseUrl, applied |-> TRUE,
                message |-> CreatePollFlexMessage(postId, baseUrl)]
  /\ UNCHANGED pParse

PollInit ==
  /\ pParse = NoParse
  /\ pReply = NoReply

(***************************************************************************)
(* The queue in front of handleQueue: a message stays in the queue until   *)
(* it is acknowledged; a message that was retried is delivered again,      *)
(* after the messages that were waiting behind it                          *)
(***************************************************************************)
MaxFailures == 2

\* The messages sent to the queue: two text messages of a user, one of
\* them with the poll marker.
RedeliveryEvents == {e \in QEvents : e.replyToken \in {"rt1", "rt2"}}

\* await c.env.LINE_BOT_QUEUE.send(event)
REnqueue(e) ==
  /\ e \notin enqueued
  /\ enqueued' = enqueued \cup {e}
  /\ inQueue' = Append(inQueue, e)
  /\ UNCHANGED <<failuresLeft, queueVars>>

\* The queue invokes handleQueue with a batch of one message.
RDeliver ==
  /\ qPc = "idle"
  /\ inQueue # <<>>
  /\ batchLen' = 1
  /\ bIdx' = 1
  /\ qPc' = "fetch"
  /\ settleLog' = <<>>
  /\ outcomeLog' = <<>>
  /\ UNCHANGED <<msgBody, thrown, translated, deliveries, storeVars, replies, qLoading, dup,
                 injected, lastVote, calls>>
  /\ UNCHANGED redVars

\* The message of the batch is the one the queue has held longest.
RFetch ==
  /\ inQueue # <<>>
  /\ QFetch(Head(inQueue))
  /\ UNCHANGED redVars

\* A step of processEvent; a collaborator fails only while failures are left.
RStep(failed, step) ==
  /\ failed => failuresLeft > 0
  /\ step
  /\ failuresLeft' = IF failed THEN failuresLeft - 1 ELSE failuresLeft
  /\ UNCHANGED <<inQueue, enqueued>>

\* message.ack() removes the message from the queue; after message.retry()
\* it goes to the back of the queue and is delivered again.
RSettle ==
  /\ QSettle
  /\ inQueue' = IF SettleCalls(thrown) = <<"ack">>
                  THEN Tail(inQueue)
                  ELSE Append(Tail(inQueue), Head(inQueue))
  /\ UNCHANGED <<enqueued, failuresLeft>>

RedInit ==
  /\ inQueue = <<>>
  /\ enqueued = {}
  /\ failuresLeft = MaxFailures

(***************************************************************************)
(* TranslationService.getContext and the PostRepository queries behind it, *)
(* applied to the posts table as handleMessageEvent fills it               *)
(***************************************************************************)
MaxCtxPosts == 3

CtxUsers == {"U1", "U2"}
CtxRooms == {Null, "R1", "R2"}
CtxTimes == 1 .. MaxCtxPosts

\* The columns of a posts row the queries read: post_id is message.id,
\* timestamp the time of the event, room_id null for a private chat.
CtxRow(id, ts, user, room) ==
  [post_id |-> id, timestamp |-> ts, user_id |-> user, room_id |-> room]

NoPost == CtxRow(0, 0, NoUser, Null)

\* ORDER BY timestamp DESC LIMIT limit over the selected rows: every way
\* of listing the latest rows, rows of equal timestamp in any order.
LatestFirst(rows, limit) ==
  LET n == IF Cardinality(rows) < limit THEN Cardinality(rows) ELSE limit
  IN IF n = 0 THEN {<<>>}
     ELSE {q \in [1 .. n -> rows] :
             /\ \A i, j \in 1 .. n :
                  i < j => (q[i] # q[j] /\ q[i].timestamp >= q[j].timestamp)
             /\ \A r \in rows :
                  (\A i \in 1 .. n : q[i] # r) => q[n].timestamp >= r.timestamp}

\* SELECT * FROM posts WHERE room_id = ? ORDER BY timestamp DESC LIMIT ?
FindLatestPostsByRoomId(tbl, roomId, limit) ==
  LatestFirst({r \in tbl : r.room_id = roomId}, limit)

\* WHERE user_id = ? only: the posts of the user in rooms included
FindLatestPostsByUserIdAnyRoom(tbl, userId, limit) ==
  LatestFirst({r \in tbl : r.user_id = userId}, limit)

\* SELECT * FROM posts WHERE user_id = ? AND room_id IS NULL
\* ORDER BY timestamp DESC LIMIT ?
FindLatestPostsByUserId(tbl, userId, limit) ==
  LatestFirst({r \in tbl : r.user_id = userId /\ r.room_id = Null}, limit)

\* getContext: if (roomId) the latest posts of the room, else the latest
\* private posts of the user, CONTEXT_LIMIT of them at most.
GetContext(tbl, userId, roomId) ==
  IF Truthy(roomId)
    THEN FindLatestPostsByRoomId(tbl, roomId, CONTEXT_LIMIT)
    ELSE FindLatestPostsByUserId(tbl, userId, CONTEXT_LIMIT)

\* handleMessageEvent, text message: await postRepository.create({...})
\* with the id and the time of the message, before translateMessage is
\* called for it (a failed insert raises and no context is read).
CtxPersist(ts, user, room) ==
  /\ cPc = "idle"
  /\ Cardinality(cPosts) < MaxCtxPosts
  /\ LET row == CtxRow(Cardinality(cPosts) + 1, ts, user, room)
         res == PostCreate(cPosts, row)
     IN /\ res.ok
        /\ cPosts' = res.tbl
        /\ cPost' = row
  /\ cContext' = <<>>
  /\ cPc' = "translate"

\* translateMessage(message.id, userId, sourceId, text):
\* const context = await this.getContext(userId, roomId)
CtxGetContext(ctx) ==
  /\ cPc = "translate"
  /\ ctx \in GetContext(cPosts, cPost.user_id, cPost.room_id)
  /\ cContext' = ctx
  /\ cPc' = "idle"
  /\ UNCHANGED <<cPosts, cPost>>

CtxInit ==
  /\ cPc = "idle"
  /\ cPosts = {}
  /\ cPost = NoPost
  /\ cContext = <<>>

(***************************************************************************)
(* Concurrent invocations of handleQueue: each worker runs processEvent on *)
(* a delivery of a text message, the awaits of handleMessageEvent being    *)
(* the points where the workers interleave, on one database                *)
(***************************************************************************)
MaxWorkerDeliveries == 3

Workers == {"w1", "w2"}

\* The text messages delivered: a plain one, a poll and a marker alone;
\* the queue may deliver each any number of times, to any worker.
WorkerEvents == {e \in QEvents : e.replyToken \in {"rt1", "rt2", "rt9"}}

NoDelivery == [delivery |-> 0, event |-> NoEvent]

WEvent(w) == wBody[w].event

WLogged(w, op, res) ==
  wLog \cup {[delivery |-> wBody[w].delivery, op |-> op, res |-> res, post |-> WEvent(w).id]}

\* processEvent raises (thrown) or goes on at the step next
WGoto(w, next, raised) ==
  /\ wPc' = [wPc EXCEPT ![w] = IF raised THEN "settle" ELSE next]
  /\ wThrown' = [wThrown EXCEPT ![w] = raised]

\* const event = message.body; processEvent(event, env): the guards of
\* handleMessageEvent before its first await
WFetch(w, e) ==
  /\ wPc[w] = "idle"
  /\ wDelivered < MaxWorkerDeliveries
  /\ wDelivered' = wDelivered + 1
  /\ wBody' = [wBody EXCEPT ![w] = [delivery |-> wDelivered + 1, event |-> e]]
  /\ wTranslated' = [wTranslated EXCEPT ![w] = Null]
  /\ WGoto(w, IF e.user = NoUser THEN "settle" ELSE "user", FALSE)
  /\ UNCHANGED <<wUsers, wRooms, wPosts, wLog>>

\* await userRepository.createIfNotExists({ user_id, display_name: "" })
WEnsureUser(w, ok) ==
  /\ wPc[w] = "user"
  /\ wUsers' = IF ok THEN UserCreateIfNotExists(wUsers, [user_id |-> WEvent(w).user,
                                                         display_name |-> ""])
                     ELSE wUsers
  /\ WGoto(w, IF GetSourceId(WEvent(w)) # Null THEN "room"
              ELSE IF WEvent(w).msgType = "text" THEN "post" ELSE "settle", ~ok)
  /\ UNCHANGED <<wBody, wTranslated, wDelivered, wRooms, wPosts, wLog>>

\* await roomRepository.upsert({ room_id: sourceId, room_name: null })
WEnsureRoom(w, ok) ==
  /\ wPc[w] = "room"
  /\ wRooms' = IF ok THEN RoomUpsert(wRooms, [room_id |-> GetSourceId(WEvent(w)),
                                              room_name |-> Null])
                     ELSE wRooms
  /\ WGoto(w, IF WEvent(w).msgType = "text" THEN "post" ELSE "settle", ~ok)
  /\ UNCHANGED <<wBody, wTranslated, wDelivered, wUsers, wPosts, wLog>>

\* await postRepository.create({...}); then the branch on hasPoll
WCreatePost(w, ok) ==
  /\ wPc[w] = "post"
  /\ LET res == PostCreate(wPosts, PostRow(WEvent(w)))
         done == ok /\ res.ok
     IN /\ wLog' = WLogged(w, "postCreate", OkFail(done))
        /\ wPosts' = IF done THEN res.tbl ELSE wPosts
        /\ WGoto(w, IF HasPoll(WEvent(w).text) /\ TextToTranslate(WEvent(w).text) = <<>>
                      THEN (IF WEvent(w).replyToken # Null THEN "reply" ELSE "settle")
                      ELSE "translate",
                 ~done)
  /\ UNCHANGED <<wBody, wTranslated, wDelivered, wUsers, wRooms>>

\* await translationService.translateMessage(...): in the poll branch a
\* rejection is caught and logged, in the other it leaves processEvent.
WTranslate(w, outcome) ==
  /\ wPc[w] = "translate"
  /\ wLog' = WLogged(w, "translateMessage", outcome)
  /\ wPosts' = IF outcome = "text"
                 THEN PostUpdateTranslatedText(wPosts, WEvent(w).id, "translation")
                 ELSE wPosts
  /\ wTranslated' = [wTranslated EXCEPT ![w] = IF outcome = "text" THEN "translation" ELSE Null]
  /\ IF HasPoll(WEvent(w).text)
       THEN WGoto(w, IF outcome = "throw"
                       THEN (IF WEvent(w).replyToken # Null THEN "reply" ELSE "settle")
                       ELSE "pollUpdate",
                  outcome = "throw" /\ PollCatch("translateMessage") # "continue")
       ELSE WGoto(w, IF ShouldReply(IF outcome = "text" THEN "translation" ELSE Null,
                                    WEvent(w).replyToken)
                       THEN "reply" ELSE "settle",
                  outcome = "throw")
  /\ UNCHANGED <<wBody, wDelivered, wUsers, wRooms>>

\* await postRepository.updateTranslatedText(message.id, translatedPoll),
\* inside the try block of the poll branch
WPollUpdate(w, ok) ==
  /\ wPc[w] = "pollUpdate"
  /\ wPosts' = IF ok THEN PostUpdateTranslatedText(wPosts, WEvent(w).id, wTranslated[w])
                     ELSE wPosts
  /\ WGoto(w, IF WEvent(w).replyToken # Null THEN "reply" ELSE "settle",
           ~ok /\ PollCatch("updateTranslatedText") # "continue")
  /\ UNCHANGED <<wBody, wTranslated, wDelivered, wUsers, wRooms, wLog>>

\* await lineClient.replyMessage(event.replyToken, messages)
WReply(w, ok) ==
  /\ wPc[w] = "reply"
  /\ wLog' = WLogged(w, "replyMessage", OkFail(ok))
  /\ WGoto(w, "settle", ~ok)
  /\ UNCHANGED <<wBody, wTranslated, wDelivered, wUsers, wRooms, wPosts>>

\* message.ack() when processEvent returned, message.retry() when it
\* raised; the invocation is over.
WSettle(w) ==
  /\ wPc[w] = "settle"
  /\ wPc' = [wPc EXCEPT ![w] = "idle"]
  /\ wThrown' = [wThrown EXCEPT ![w] = FALSE]
  /\ wBody' = [wBody EXCEPT ![w] = NoDelivery]
  /\ wTranslated' = [wTranslated EXCEPT ![w] = Null]
  /\ UNCHANGED <<wDelivered, wUsers, wRooms, wPosts, wLog>>

WorkInit ==
  /\ wPc = [w \in Workers |-> "idle"]
  /\ wBody = [w \in Workers |-> NoDelivery]
  /\ wTranslated = [w \in Workers |-> Null]
  /\ wThrown = [w \in Workers |-> FALSE]
  /\ wDelivered = 0
  /\ wUsers = {}
  /\ wRooms = {}
  /\ wPosts = {}
  /\ wLog = {}

(***************************************************************************)
(* The consumer on a database that is in use: rooms named by hand, users   *)
(* renamed on the admin page, votes for any post id                        *)
(***************************************************************************)
\* rooms.room_name is entered by hand: the table may hold a named room
\* before the consumer sees a message of that room.
ExistingRooms == {{}, {[room_id |-> "R1", room_name |-> "Ballet"]}}

DisplayNames == {"Anna"}

\* A plain text message and a poll of U1, a vote of U2 on the poll, and a
\* vote of U1 whose postId is the id of the plain message.
StoreEvents ==
  {e \in QEvents : e.replyToken \in {"rt1", "rt2", "rt4"}} \cup
    {QEvent("postback", "U1", Null, "rt11", 11, Null, Null, <<>>, VoteData("OK", "M1"))}

\* admin.post('/users/:userId/edit'):
\* UPDATE users SET display_name = ? WHERE user_id = ?
AdminEditUser(userId, displayName) ==
  /\ users' = {IF r.user_id = userId THEN [r EXCEPT !.display_name = displayName] ELSE r :
                 r \in users}
  /\ UNCHANGED <<qPc, msgBody, batchLen, bIdx, thrown, translated, deliveries,
                 rooms, posts, answers, replies, qLoading, settleLog, outcomeLog,
                 dup, injected, lastVote, calls>>

StoreInit ==
  /\ GenInit /\ HookInit /\ TransInit /\ PollInit /\ RedInit /\ CtxInit /\ WorkInit
  /\ ConsumerInit
  /\ rooms \in ExistingRooms

(***************************************************************************)
(* Specifications                                                          *)
(***************************************************************************)
Init == GenInit /\ HookInit /\ QueueInit /\ TransInit /\ PollInit /\ RedInit /\ CtxInit /\ WorkInit

GenNext ==
  \/ \E r \in 1 .. MaxRetries : GenStart(r) /\ UNCHANGED <<hookVars, queueVars, transVars, pollVars, redVars, ctxVars, workVars>>
  \/ \E o \in Outcomes : GenCall(o) /\ UNCHANGED <<hookVars, queueVars, transVars, pollVars, redVars, ctxVars, workVars>>
  \/ GenWait /\ UNCHANGED <<hookVars, queueVars, transVars, pollVars, redVars, ctxVars, workVars>>

HookNext ==
  \/ \E req \in Requests : HookReceive(req) /\ UNCHANGED <<genVars, queueVars, transVars, pollVars, redVars, ctxVars, workVars>>
  \/ HookVerify /\ UNCHANGED <<genVars, queueVars, transVars, pollVars, redVars, ctxVars, workVars>>
  \/ \E ok \in BOOLEAN : HookStartLoading(ok) /\ UNCHANGED <<genVars, queueVars, transVars, pollVars, redVars, ctxVars, workVars>>
  \/ HookNoLoading /\ UNCHANGED <<genVars, queueVars, transVars, pollVars, redVars, ctxVars, workVars>>
  \/ \E ok \in BOOLEAN : HookSend(ok) /\ UNCHANGED <<genVars, queueVars, transVars, pollVars, redVars, ctxVars, workVars>>
  \/ HookRespond /\ UNCHANGED <<genVars, queueVars, transVars, pollVars, redVars, ctxVars, workVars>>

QueueNext ==
  \/ \E n \in 1 .. MaxMessages : QDeliver(n) /\ UNCHANGED <<genVars, hookVars, transVars, pollVars, redVars, ctxVars, workVars>>
  \/ \E e \in QEvents : QFetch(e) /\ UNCHANGED <<genVars, hookVars, transVars, pollVars, redVars, ctxVars, workVars>>
  \/ QDispatch /\ UNCHANGED <<genVars, hookVars, transVars, pollVars, redVars, ctxVars, workVars>>
  \/ \E ok \in BOOLEAN : QEnsureUser(ok) /\ UNCHANGED <<genVars, hookVars, transVars, pollVars, redVars, ctxVars, workVars>>
  \/ \E ok \in BOOLEAN : QEnsureRoom(ok) /\ UNCHANGED <<genVars, hookVars, transVars, pollVars, redVars, ctxVars, workVars>>
  \/ \E ok \in BOOLEAN : QCreatePost(ok) /\ UNCHANGED <<genVars, hookVars, transVars, pollVars, redVars, ctxVars, workVars>>
  \/ \E outcome \in {"text", "null", "throw"} : QTranslate(outcome) /\ UNCHANGED <<genVars, hookVars, transVars, pollVars, redVars, ctxVars, workVars>>
  \/ \E ok \in BOOLEAN : QPollUpdate(ok) /\ UNCHANGED <<genVars, hookVars, transVars, pollVars, redVars, ctxVars, workVars>>
  \/ \E ok \in BOOLEAN : QReply(ok) /\ UNCHANGED <<genVars, hookVars, transVars, pollVars, redVars, ctxVars, workVars>>
  \/ \E ok \in BOOLEAN : QVoteLoading(ok) /\ UNCHANGED <<genVars, hookVars, transVars, pollVars, redVars, ctxVars, workVars>>
  \/ \E ok \in BOOLEAN : QVoteUpsert(ok) /\ UNCHANGED <<genVars, hookVars, transVars, pollVars, redVars, ctxVars, workVars>>
  \/ QSettle /\ UNCHANGED <<genVars, hookVars, transVars, pollVars, redVars, ctxVars, workVars>>
  \/ QBatchDone /\ UNCHANGED <<genVars, hookVars, transVars, pollVars, redVars, ctxVars, workVars>>

TransNext ==
  \/ \E text \in Texts : TransStart(text) /\ UNCHANGED <<genVars, hookVars, queueVars, pollVars, redVars, ctxVars, workVars>>
  \/ \E ctx \in Contexts, ok \in BOOLEAN :
       TransGetContext(ctx, ok) /\ UNCHANGED <<genVars, hookVars, queueVars, pollVars, redVars, ctxVars, workVars>>
  \/ \E res \in ModelTexts \cup {"<error>"} :
       TransGenerate(res) /\ UNCHANGED <<genVars, hookVars, queueVars, pollVars, redVars, ctxVars, workVars>>
  \/ \E ok \in BOOLEAN : TransLog(ok) /\ UNCHANGED <<genVars, hookVars, queueVars, pollVars, redVars, ctxVars, workVars>>
  \/ \E ok \in BOOLEAN : TransUpdate(ok) /\ UNCHANGED <<genVars, hookVars, queueVars, pollVars, redVars, ctxVars, workVars>>
  \/ \E ok \in BOOLEAN : TransDebug(ok) /\ UNCHANGED <<genVars, hookVars, queueVars, pollVars, redVars, ctxVars, workVars>>

PollNext ==
  \/ \E text \in PollTexts : PollParse(text) /\ UNCHANGED <<genVars, hookVars, queueVars, transVars, redVars, ctxVars, workVars>>
  \/ \E postId \in PollPostIds, baseUrl \in BaseUrls :
       PollBuild(postId, baseUrl) /\ UNCHANGED <<genVars, hookVars, queueVars, transVars, redVars, ctxVars, workVars>>

CtxNext ==
  \/ \E ts \in CtxTimes, user \in CtxUsers, room \in CtxRooms :
       CtxPersist(ts, user, room) /\ UNCHANGED <<genVars, hookVars, queueVars, transVars, pollVars, redVars, workVars>>
  \/ \E ctx \in GetContext(cPosts, cPost.user_id, cPost.room_id) :
       CtxGetContext(ctx) /\ UNCHANGED <<genVars, hookVars, queueVars, transVars, pollVars, redVars, workVars>>

nonWorkVars == <<genVars, hookVars, queueVars, transVars, pollVars, redVars, ctxVars>>

WorkNext ==
  \/ \E w \in Workers, e \in WorkerEvents : WFetch(w, e) /\ UNCHANGED nonWorkVars
  \/ \E w \in Workers, ok \in BOOLEAN : WEnsureUser(w, ok) /\ UNCHANGED nonWorkVars
  \/ \E w \in Workers, ok \in BOOLEAN : WEnsureRoom(w, ok) /\ UNCHANGED nonWorkVars
  \/ \E w \in Workers, ok \in BOOLEAN : WCreatePost(w, ok) /\ UNCHANGED nonWorkVars
  \/ \E w \in Workers, outcome \in {"text", "null", "throw"} :
       WTranslate(w, outcome) /\ UNCHANGED nonWorkVars
  \/ \E w \in Workers, ok \in BOOLEAN : WPollUpdate(w, ok) /\ UNCHANGED nonWorkVars
  \/ \E w \in Workers, ok \in BOOLEAN : WReply(w, ok) /\ UNCHANGED nonWorkVars
  \/ \E w \in Workers : WSettle(w) /\ UNCHANGED nonWorkVars

otherVars == <<genVars, hookVars, transVars, pollVars, ctxVars, workVars>>

RedNext ==
  \/ \E e \in RedeliveryEvents : REnqueue(e) /\ UNCHANGED otherVars
  \/ RDeliver /\ UNCHANGED otherVars
  \/ RFetch /\ UNCHANGED otherVars
  \/ RStep(FALSE, QDispatch) /\ UNCHANGED otherVars
  \/ \E ok \in BOOLEAN : RStep(~ok, QEnsureUser(ok)) /\ UNCHANGED otherVars
  \/ \E ok \in BOOLEAN : RStep(~ok, QEnsureRoom(ok)) /\ UNCHANGED otherVars
  \/ \E ok \in BOOLEAN : RStep(~ok, QCreatePost(ok)) /\ UNCHANGED otherVars
  \/ \E outcome \in {"text", "null", "throw"} :
       RStep(outcome = "throw", QTranslate(outcome)) /\ UNCHANGED otherVars
  \/ \E ok \in BOOLEAN : RStep(~ok, QPollUpdate(ok)) /\ UNCHANGED otherVars
  \/ \E ok \in BOOLEAN : RStep(~ok, QReply(ok)) /\ UNCHANGED otherVars
  \/ RSettle /\ UNCHANGED otherVars
  \/ QBatchDone /\ UNCHANGED <<otherVars, redVars>>

StoreNext ==
  \/ \E n \in 1 .. MaxMessages : QDeliver(n) /\ UNCHANGED <<otherVars, redVars>>
  \/ \E e \in StoreEvents : QFetch(e) /\ UNCHANGED <<otherVars, redVars>>
  \/ QDispatch /\ UNCHANGED <<otherVars, redVars>>
  \/ \E ok \in BOOLEAN : QEnsureUser(ok) /\ UNCHANGED <<otherVars, redVars>>
  \/ \E ok \in BOOLEAN : QEnsureRoom(ok) /\ UNCHANGED <<otherVars, redVars>>
  \/ \E ok \in BOOLEAN : QCreatePost(ok) /\ UNCHANGED <<otherVars, redVars>>
  \/ \E outcome \in {"text", "null", "throw"} :
       QTranslate(outcome) /\ UNCHANGED <<otherVars, redVars>>
  \/ \E ok \in BOOLEAN : QPollUpdate(ok) /\ UNCHANGED <<otherVars, redVars>>
  \/ \E ok \in BOOLEAN : QReply(ok) /\ UNCHANGED <<otherVars, redVars>>
  \/ \E ok \in BOOLEAN : QVoteLoading(ok) /\ UNCHANGED <<otherVars, redVars>>
  \/ \E ok \in BOOLEAN : QVoteUpsert(ok) /\ UNCHANGED <<otherVars, redVars>>
  \/ QSettle /\ UNCHANGED <<otherVars, redVars>>
  \/ QBatchDone /\ UNCHANGED <<otherVars, redVars>>
  \/ \E userId \in {"U1", "U2"}, displayName \in DisplayNames :
       AdminEditUser(userId, displayName) /\ UNCHANGED <<otherVars, redVars>>

\* The queue keeps delivering while it holds a message and the consumer
\* keeps running; the order of the queue makes every message it holds the
\* next one to deliver after finitely many deliveries.
RedFairness == WF_vars(RedNext)

SpecGen  == Init /\ [][GenNext]_vars
SpecHook == Init /\ [][HookNext]_vars
SpecQueue == Init /\ [][QueueNext]_vars
SpecTranslate == Init /\ [][TransNext]_vars
SpecPoll == Init /\ [][PollNext]_vars
SpecRedelivery == Init /\ [][RedNext]_vars /\ RedFairness
SpecStore == StoreInit /\ [][StoreNext]_vars
SpecContext == Init /\ [][CtxNext]_vars
SpecWorkers == Init /\ [][WorkNext]_vars

(***************************************************************************)
(* Properties of GeminiClient.generateText (SpecGen)                       *)
(***************************************************************************)
CallsTo(m) == {k \in DOMAIN gLog : gLog[k].model = m}

AllTransient ==
  /\ gLog # <<>>
  /\ \A k \in DOMAIN gLog : gLog[k].outcome \in {"e500", "e503"}

\* C5: a call that fails with 429 is the last call to its model and is
\* followed by no wait; the next call goes to the next model of the list,
\* and when the first model answers 429 and the second returns text,
\* generateText returns that text after exactly two calls, one per model.
C5_RateLimitRotatesWithoutWait ==
  /\ \A k \in DOMAIN gLog :
       gLog[k].outcome = "e429" =>
         /\ \A j \in DOMAIN gLog : j > k => gLog[j].model # gLog[k].model
         /\ k < Len(gLog) =>
              /\ gLog[k + 1].model = gLog[k].model + 1
              /\ gLog[k + 1].attempt = 0
         /\ k = Len(gLog) => (gPc # "wait" /\ gDelay = NoDelay)
  /\ (Len(gLog) >= 2 /\ gLog[1].outcome = "e429" /\ gLog[2].outcome = "text") =>
       /\ gPc = "returned"
       /\ gResult = [kind |-> "text", call |-> 2, model |-> 2]
       /\ Len(gLog) = 2
       /\ gLog[1].model = 1
       /\ gLog[2].model = 2

C5_Witness ==
  /\ gPc = "returned"
  /\ Len(gLog) = 2
  /\ gLog[1].outcome = "e429"
  /\ gResult.model = 2

\* C6 as stated: when every call fails with 500 or 503, generateText raises
\* after exactly models x retries calls.
C6_Original ==
  (gPc = "thrown" /\ AllTransient) => Len(gLog) = NumModels * gRetries

\* C6 amended: when every call fails with 500 or 503, all calls go to the
\* first model, and generateText raises the last error after exactly
\* `retries` calls; no other model is tried.
C6_TransientFailsOnFirstModel ==
  AllTransient =>
    /\ \A k \in DOMAIN gLog : gLog[k].model = 1 /\ gLog[k].attempt = k - 1
    /\ Len(gLog) <= gRetries
    /\ (gPc = "thrown") <=> (Len(gLog) = gRetries)
    /\ Len(gLog) < gRetries => (gPc \in {"wait", "call"} /\ gModel = 1)
    /\ gPc = "thrown" => gResult = [kind |-> "error", call |-> Len(gLog), model |-> 1]

C6_Witness ==
  /\ gPc = "thrown"
  /\ AllTransient
  /\ gRetries >= 2
  /\ \E k \in DOMAIN gLog : gLog[k].outcome = "e500"
  /\ \E k \in DOMAIN gLog : gLog[k].outcome = "e503"

\* C7: while every call to a model fails with 503, the retries stay on that
\* model; once `retries` calls to it have failed, generateText has thrown
\* and no later model was called.
C7_Exhausted503NeverRotates ==
  \A m \in 1 .. NumModels :
    (CallsTo(m) # {} /\ \A k \in CallsTo(m) : gLog[k].outcome = "e503") =>
      /\ Cardinality(CallsTo(m)) <= gRetries
      /\ \A k \in CallsTo(m) : k < Len(gLog) =>
           (gLog[k + 1].model = m /\ gLog[k + 1].attempt = gLog[k].attempt + 1)
      /\ Cardinality(CallsTo(m)) < gRetries =>
           (gPc \in {"wait", "call"} /\ gModel = m)
      /\ Cardinality(CallsTo(m)) = gRetries =>
           /\ gPc = "thrown"
           /\ gResult = [kind |-> "error", call |-> Len(gLog), model |-> m]
           /\ gLog[Len(gLog)].model = m

C7_Witness ==
  /\ gPc = "thrown"
  /\ gRetries >= 2
  /\ gModel = 2
  /\ gModel < NumModels
  /\ Cardinality(CallsTo(2)) = gRetries
  /\ \A k \in CallsTo(2) : gLog[k].outcome = "e503"

\* C8: a call that fails with an error other than 429, 500 or 503 is the
\* last call generateText makes: it throws that very error, with no wait.
C8_OtherErrorFailsImmediately ==
  \A k \in DOMAIN gLog :
    gLog[k].outcome \in {"e400", "enet"} =>
      /\ k = Len(gLog)
      /\ gPc = "thrown"
      /\ gResult = [kind |-> "error", call |-> k, model |-> gLog[k].model]
      /\ gLastError.call = k
      /\ gDelay = NoDelay

C8_Witness ==
  /\ gPc = "thrown"
  /\ Len(gLog) = 1
  /\ gLog[1].outcome = "e400"
  /\ gRetries >= 2

(***************************************************************************)
(* Properties of handleWebhook (SpecHook)                                  *)
(***************************************************************************)
HeaderMissing == hReq.signature \in {NoHeader, EmptyHeader}

Authenticated ==
  \/ hReq.bypass
  \/ (~HeaderMissing /\ hReq.signature = Hmac(CHANNEL_SECRET, hReq.events))

\* C2: without the bypass flag, a request with no signature header is
\* answered 400 and one whose signature differs from the HMAC of the body
\* is answered 401; for neither is a loading call or a queue send made.
C2_UnauthenticatedNeverQueued ==
  (hPc # "idle" /\ ~Authenticated) =>
    /\ queue = <<>>
    /\ hLoading = <<>>
    /\ hSends = <<>>
    /\ hPc \in {"verify", "responded"}
    /\ hPc = "responded" => hResponse.status = (IF HeaderMissing THEN 400 ELSE 401)

C2_Witness ==
  /\ hPc = "responded"
  /\ hResponse.status = 401
  /\ ~hReq.bypass
  /\ \E k \in DOMAIN hReq.events : WantsLoading(hReq.events[k])

\* C9: a request that passed (or bypassed) the signature check is answered
\* 200 {"message":"ok"}, whichever loading calls or queue sends failed.
C9_VerifiedAlwaysOk ==
  (hPc = "responded" /\ Authenticated) => hResponse = [status |-> 200, message |-> "ok"]

C9_Witness ==
  /\ hPc = "responded"
  /\ hResponse.status = 200
  /\ \E k \in DOMAIN hSends : ~hSends[k].ok
  /\ \E k \in DOMAIN hLoading : ~hLoading[k].ok

\* C10: the queue sends of a verified request are attempted once per event,
\* in the order of the events array: the k-th attempt is for the k-th event,
\* whatever earlier loading calls or sends did.
C10_OneSendPerEventInOrder ==
  /\ \A k \in DOMAIN hSends : hSends[k].idx = k /\ hSends[k].event = hReq.events[k]
  /\ hPc = "loop" => Len(hSends) = hIdx - 1
  /\ hPc = "send" => Len(hSends) = hIdx - 1
  /\ (hPc = "responded" /\ Authenticated) => Len(hSends) = Len(hReq.events)

C10_Witness ==
  /\ hPc = "responded"
  /\ Len(hReq.events) = 2
  /\ Len(hSends) = 2
  /\ ~hSends[1].ok
  /\ \E k \in DOMAIN hLoading : hLoading[k].idx = 1 /\ ~hLoading[k].ok

(***************************************************************************)
(* Properties of handleQueue (SpecQueue)                                   *)
(***************************************************************************)
SettlesOf(k) == {j \in DOMAIN settleLog : settleLog[j].idx = k}

\* C1: every message of the batch that has been handled got exactly one
\* call among ack() and retry(): ack() when processEvent returned, retry()
\* when it raised; when the loop ends every message of the batch is settled.
C1_EachMessageSettledOnce ==
  /\ \A k \in DOMAIN outcomeLog :
       /\ outcomeLog[k].idx = k
       /\ Cardinality(SettlesOf(k)) = 1
       /\ \A j \in SettlesOf(k) : (settleLog[j].how = "ack") <=> ~outcomeLog[k].threw
       /\ \A j \in SettlesOf(k) : (settleLog[j].how = "retry") <=> outcomeLog[k].threw
  /\ \A j \in DOMAIN settleLog : settleLog[j].idx \in DOMAIN outcomeLog
  /\ (qPc = "fetch" /\ bIdx > batchLen) => Len(outcomeLog) = batchLen

C1_Witness ==
  /\ qPc = "fetch"
  /\ bIdx > batchLen
  /\ batchLen = 2
  /\ outcomeLog[1].threw
  /\ ~outcomeLog[2].threw

RowsOf(p, u) == {r \in answers : r.poll_post_id = p /\ r.user_id = u}

VotesOf(p, u) == {v \in lastVote : v.poll = p /\ v.voter = u}

VotePairs ==
  {<<r.poll_post_id, r.user_id>> : r \in answers} \cup {<<v.poll, v.voter>> : v \in lastVote}

\* C3: the answers table has at most one row per (poll post, voter), and
\* its answer is the one of the vote of that pair handled last.
C3_OneVoteRowLatestWins ==
  \A pr \in VotePairs :
    /\ Cardinality(RowsOf(pr[1], pr[2])) = 1
    /\ VotesOf(pr[1], pr[2]) # {}
    /\ \A r \in RowsOf(pr[1], pr[2]) : \A v \in VotesOf(pr[1], pr[2]) :
         r.answer_value = v.answer

C3_Witness ==
  \E v \in lastVote :
    /\ v.prev # Null
    /\ v.prev # v.answer
    /\ \E r \in answers :
         r.poll_post_id = v.poll /\ r.user_id = v.voter /\ r.answer_value = v.answer

\* C4 as stated: a text message whose post row is already stored (a second
\* delivery of the same event) is handled without an exception and
\* acknowledged, unless a collaborator call fails during this delivery.
C4_DuplicateDeliveryAcknowledged ==
  \A k \in DOMAIN outcomeLog :
    (outcomeLog[k].dup /\ ~outcomeLog[k].injected) =>
      /\ ~outcomeLog[k].threw
      /\ \A j \in SettlesOf(k) : settleLog[j].how = "ack"

\* C11: within a batch every message is processed exactly once, in order,
\* whatever its siblings did: a message that raised is followed by the
\* processing of the next one, each message is settled by its own outcome
\* (retry iff it raised itself), and a message raises only for a failure
\* of its own handling, never because a sibling raised.
C11_FailureIsolatedPerMessage ==
  /\ Len(outcomeLog) = bIdx - 1
  /\ \A k \in DOMAIN outcomeLog :
       /\ outcomeLog[k].idx = k
       /\ outcomeLog[k].threw => (outcomeLog[k].injected \/ outcomeLog[k].dup)
       /\ \A j \in DOMAIN settleLog :
            settleLog[j].idx = k =>
              settleLog[j].how = (IF outcomeLog[k].threw THEN "retry" ELSE "ack")
       /\ Cardinality(SettlesOf(k)) = 1
  /\ (qPc \notin {"idle", "fetch"}) => (bIdx <= batchLen /\ Len(settleLog) = bIdx - 1)
  /\ (qPc = "fetch" /\ bIdx > batchLen) =>
       (Len(outcomeLog) = batchLen /\ Len(settleLog) = batchLen)

C11_Witness ==
  /\ qPc = "fetch"
  /\ bIdx > batchLen
  /\ batchLen = 3
  /\ ~outcomeLog[1].threw
  /\ outcomeLog[2].threw
  /\ ~outcomeLog[3].threw
  /\ settleLog[3].how = "ack"
  /\ posts # {}

(***************************************************************************)
(* Further properties of handleWebhook (SpecHook)                          *)
(***************************************************************************)
HookStep ==
  \/ HookVerify
  \/ \E ok \in BOOLEAN : HookStartLoading(ok)
  \/ HookNoLoading
  \/ \E ok \in BOOLEAN : HookSend(ok)
  \/ HookRespond

SendsOk == {k \in DOMAIN hSends : hSends[k].ok}

\* C12: from the receipt of a request to its response the handler only
\* verifies the signature, calls startLoadingAnimation and sends to the
\* queue: no generateText call is made, no table is written, no reply or
\* consumer-side indicator is sent, and the handler is never blocked on the
\* queue consumer: with the consumer idle and the sent events still queued,
\* its next step (in particular its response) is enabled.
C12_GatewayOnlyVerifiesIndicatesEnqueues ==
  /\ gLog = <<>> /\ gPc = "idle"
  /\ users = {} /\ rooms = {} /\ posts = {} /\ answers = {}
  /\ replies = {} /\ qLoading = {}
  /\ qPc = "idle" /\ deliveries = 0
  /\ Len(queue) = Cardinality(SendsOk)
  /\ hPc \in {"verify", "loop", "send"} =>
       ENABLED (HookStep /\ UNCHANGED <<genVars, queueVars, transVars, pollVars, redVars, ctxVars, workVars>>)
  /\ (hPc = "loop" /\ hIdx > Len(hReq.events)) =>
       ENABLED (HookRespond /\ UNCHANGED <<genVars, queueVars, transVars, pollVars, redVars, ctxVars, workVars>>)

C12_Witness ==
  /\ hPc = "responded"
  /\ hResponse.status = 200
  /\ Len(queue) = 2
  /\ qPc = "idle"
  /\ deliveries = 0
  /\ posts = {}
  /\ replies = {}

LoadingsOf(k) == {j \in DOMAIN hLoading : hLoading[j].idx = k}

\* C13 as stated: every event of a verified request that carries a user id,
\* whatever its type, has had one startLoadingAnimation call made for that
\* user by the time its queue send is attempted.
C13_Original ==
  \A k \in DOMAIN hSends :
    hReq.events[k].user # NoUser =>
      /\ Cardinality(LoadingsOf(k)) = 1
      /\ \A j \in LoadingsOf(k) : hLoading[j].user = hReq.events[k].user

\* C13 amended: every event of type message that carries a user id has had
\* exactly one startLoadingAnimation call made for that user by the time its
\* queue send is attempted; an event of another type (postback, follow) or
\* without a user id gets no such call from handleWebhook.
C13_MessageEventsGetLoadingBeforeSend ==
  /\ \A k \in DOMAIN hSends :
       IF hReq.events[k].type = "message" /\ hReq.events[k].user # NoUser
         THEN /\ Cardinality(LoadingsOf(k)) = 1
              /\ \A j \in LoadingsOf(k) : hLoading[j].user = hReq.events[k].user
         ELSE LoadingsOf(k) = {}
  /\ \A j \in DOMAIN hLoading :
       /\ hLoading[j].idx \in DOMAIN hReq.events
       /\ hReq.events[hLoading[j].idx].type = "message"
       /\ hLoading[j].idx <= hIdx
       /\ (hLoading[j].idx \notin DOMAIN hSends) => (hPc = "send" /\ hLoading[j].idx = hIdx)

C13_Witness ==
  /\ hPc = "responded"
  /\ Len(hSends) = 2
  /\ hReq.events[1].type = "postback"
  /\ hReq.events[1].user # NoUser
  /\ hReq.events[2].type = "message"
  /\ hReq.events[2].user # NoUser
  /\ Len(hLoading) = 1
  /\ hLoading[1].idx = 2

(***************************************************************************)
(* Properties of translateMessage (SpecTranslate)                          *)
(***************************************************************************)
TransDone == tPc \in {"returned", "raised"}

FailedCalls == {k \in DOMAIN tCalls : tCalls[k].res \notin ModelTexts}

TargetsOf(lang) == IF lang = "ja" THEN {"en", "pl"} ELSE {"ja"}

TranslationLogRows == {k \in DOMAIN tLogs : tLogs[k].table = "translation_logs"}

IsText == msgBody.type = "message" /\ msgBody.user # NoUser /\ msgBody.msgType = "text"

IsPlainText == IsText /\ ~HasPoll(msgBody.text)

IsPollText == IsText /\ HasPoll(msgBody.text)

CallsOf(op) == {k \in DOMAIN calls : calls[k].op = op}

TranslationGave(res) == \E k \in CallsOf("translateMessage") : calls[k].res = res

RepliesFor(id) == {r \in replies : r.post = id}

\* C18: for a text message without the poll marker, when translateMessage
\* returned null no replyMessage call is made, the post of the message
\* stays stored (without a translated text), processEvent returns and the
\* message is acknowledged; a replyMessage call is made only after
\* translateMessage returned a text, and carries that text.
C18_NullTranslationNoReplyStillAcked ==
  IsPlainText =>
    /\ TranslationGave("null") =>
         /\ CallsOf("replyMessage") = {}
         /\ RepliesFor(msgBody.id) = {}
         /\ \E r \in posts :
              /\ r.post_id = msgBody.id
              /\ r.message_text = msgBody.text
              /\ r.translated_text = Null
         /\ qPc = "settle"
         /\ ~thrown
         /\ SettleCalls(thrown) = <<"ack">>
    /\ \A k \in CallsOf("replyMessage") :
         /\ \E j \in CallsOf("translateMessage") : j < k /\ calls[j].res = "text"
         /\ \A r \in RepliesFor(msgBody.id) : r.text = translated /\ Truthy(r.text) /\ ~r.flex
         /\ RepliesFor(msgBody.id) # {}

C18_Witness ==
  /\ qPc = "settle"
  /\ IsPlainText
  /\ TranslationGave("null")
  /\ ~thrown
  /\ \E r \in posts : r.post_id = msgBody.id
  /\ RepliesFor(msgBody.id) = {}

\* C19: for a text message with the poll marker, when the translation of
\* the question failed (translateMessage raised or returned null) the
\* handler still goes on to replyMessage with the poll payload of that post
\* id and no text message; when that reply call succeeds processEvent
\* returns and the message is acknowledged.
C19_PollSurvivesTranslationFailure ==
  (IsPollText /\ (TranslationGave("throw") \/ TranslationGave("null"))) =>
    /\ qPc \in {"pollUpdate", "reply", "settle"}
    /\ qPc = "pollUpdate" => TranslationGave("null")
    /\ qPc = "settle" =>
         /\ Cardinality(CallsOf("replyMessage")) = 1
         /\ \E r \in RepliesFor(msgBody.id) :
              r.flex /\ r.text = Null /\ r.token = msgBody.replyToken
         /\ thrown <=> (\E k \in CallsOf("replyMessage") : calls[k].res = "fail")
         /\ ~thrown => SettleCalls(thrown) = <<"ack">>
    /\ \E r \in posts : r.post_id = msgBody.id /\ r.has_poll = 1

C19_Witness ==
  /\ qPc = "settle"
  /\ IsPollText
  /\ TranslationGave("throw")
  /\ ~thrown
  /\ \E r \in RepliesFor(msgBody.id) : r.flex /\ r.text = Null

(***************************************************************************)
(* Properties of the poll buttons and handlePostbackEvent (SpecQueue)      *)
(***************************************************************************)
PostIds == {"M1", "M2", "M3"}

ButtonData(id, k) == CreatePollFlexMessage(id, "https://bot").buttons[k].data

\* The (post id, choice) pairs whose button carries the data of the
\* postback being handled.
ButtonsOfCurrent ==
  {bc \in PostIds \X (1 .. Len(Choices)) : msgBody.data = ButtonData(bc[1], bc[2])}

VoteLacksField(e) ==
  /\ e.type = "postback"
  /\ e.user # NoUser
  /\ ParamsGet(e.data, "action") = "answer"
  /\ (~Truthy(ParamsGet(e.data, "value")) \/ ~Truthy(ParamsGet(e.data, "postId")))

\* C21 as stated: a vote whose data lacks the post id or the answer is
\* rejected with an error (processEvent raises, so the message is not
\* handled as a success) and no answer is stored for it.
C21_VoteLackingFieldRejected ==
  (qPc = "settle" /\ VoteLacksField(CurEvent)) =>
    /\ thrown
    /\ CallsOf("answerUpsert") = {}

\* The time stamp of the vote event of voter on poll that carries answer.
VoteTime(poll, voter, answer) ==
  (CHOOSE e \in QEvents :
     /\ e.type = "postback"
     /\ e.user = voter
     /\ ParamsGet(e.data, "postId") = poll
     /\ ParamsGet(e.data, "value") = answer).timestamp

\* C22 as stated: when two different votes of one voter on one poll have
\* been handled, in whichever order, the stored answer is the one of the
\* vote cast later (the one with the greater event time stamp).
C22_LatestVoteWinsInAnyOrder ==
  \A v \in lastVote :
    (v.prev # Null /\ v.prev # v.answer) =>
      \A r \in RowsOf(v.poll, v.voter) :
        r.answer_value =
          IF VoteTime(v.poll, v.voter, v.answer) > VoteTime(v.poll, v.voter, v.prev)
            THEN v.answer ELSE v.prev

(***************************************************************************)
(* Rate limits on every model, and empty responses (SpecGen)               *)
(***************************************************************************)
AllRateLimited ==
  /\ gLog # <<>>
  /\ \A k \in DOMAIN gLog : gLog[k].outcome = "e429"

\* C23: while every call fails with 429, the k-th call is the first call to
\* the k-th model of the list, with no wait between calls; after the call
\* to the fourth and last model generateText throws the last error, the
\* 429 of that call, and not before.
C23_AllRateLimitedTriesEachModelOnce ==
  AllRateLimited =>
    /\ Len(GEMINI_MODELS) = 4
    /\ Len(gLog) <= Len(GEMINI_MODELS)
    /\ \A k \in DOMAIN gLog : gLog[k].model = k /\ gLog[k].attempt = 0
    /\ \A m \in 1 .. Len(GEMINI_MODELS) : Cardinality(CallsTo(m)) <= 1
    /\ gDelay = NoDelay
    /\ Len(gLog) < Len(GEMINI_MODELS) => (gPc = "call" /\ gModel = Len(gLog) + 1)
    /\ Len(gLog) = Len(GEMINI_MODELS) =>
         /\ gPc = "thrown"
         /\ gResult = [kind |-> "error", call |-> Len(gLog), model |-> Len(GEMINI_MODELS)]
         /\ gLastError = [call |-> Len(gLog), status |-> 429]

C23_Witness ==
  /\ AllRateLimited
  /\ gPc = "thrown"
  /\ gRetries >= 2
  /\ <<gLog[1].model, gLog[2].model, gLog[3].model, gLog[4].model>> = <<1, 2, 3, 4>>
  /\ GEMINI_MODELS[gResult.model] = "gemma-3-27b-it"

\* C24: generateText returns only after a call that gave a non-empty text;
\* a call whose response has an empty text is its last call: it throws the
\* error of that call at once, with no wait, no further call to that model
\* and no call to another model.
C24_EmptyTextFailsImmediately ==
  /\ gPc = "returned" =>
       /\ gLog[Len(gLog)].outcome = "text"
       /\ gResult = [kind |-> "text", call |-> Len(gLog), model |-> gLog[Len(gLog)].model]
  /\ \A k \in DOMAIN gLog :
       gLog[k].outcome = "empty" =>
         /\ k = Len(gLog)
         /\ gPc = "thrown"
         /\ gResult = [kind |-> "error", call |-> k, model |-> gLog[k].model]
         /\ gLastError = [call |-> k, status |-> Undefined]
         /\ gDelay = NoDelay

C24_Witness ==
  /\ gPc = "thrown"
  /\ Len(gLog) = 2
  /\ gLog[1].outcome = "e429"
  /\ gLog[2].outcome = "empty"
  /\ gRetries >= 2
  /\ gLog[2].model < NumModels

(***************************************************************************)
(* Language detection (SpecTranslate)                                      *)
(***************************************************************************)
\* The characters of the alphabet by script: hiragana a, katakana a and an
\* ideograph; o-acute; a Latin letter and an ASCII punctuation mark.
JapaneseSample == {12354, 12450, 40879}

DiacriticSample == {243}

AsciiSample == {33, 97}

\* C25: the language detected for a text is "ja" when the text holds a
\* hiragana, katakana or ideograph character, whatever else it holds;
\* otherwise "pl" when it holds a Polish diacritic; otherwise "en", as for
\* a text of Latin letters and ASCII punctuation only.  Every text gets one
\* of the three.
C25_DetectionIsTotalAndOrdered ==
  tPc # "idle" =>
    /\ tLang \in {"ja", "pl", "en"}
    /\ \A k \in DOMAIN tText : tText[k] \in JapaneseSample \cup DiacriticSample \cup AsciiSample
    /\ (\E k \in DOMAIN tText : tText[k] \in JapaneseSample) => tLang = "ja"
    /\ ((\A k \in DOMAIN tText : tText[k] \notin JapaneseSample)
          /\ (\E k \in DOMAIN tText : tText[k] \in DiacriticSample)) => tLang = "pl"
    /\ (\A k \in DOMAIN tText : tText[k] \in AsciiSample) => tLang = "en"

C25_Witness ==
  /\ tPc # "idle"
  /\ Len(tText) = 2
  /\ tText[1] \in DiacriticSample
  /\ tText[2] \in JapaneseSample
  /\ tLang = "ja"

(***************************************************************************)
(* Poll messages (SpecQueue)                                               *)
(***************************************************************************)
PollContentOfTextPoll == <<"o", "k", "?">>

\* The handling of the current message went through without a failing call.
NoCallFailed == \A k \in DOMAIN calls : calls[k].res \notin {"fail", "throw"}

\* C26 as stated: a text message with the marker, stored for the first time
\* and handled without a failing call, leaves a post with has_poll 1 and
\* its original text, has its text without the marker, trimmed, translated,
\* and is answered with the poll payload of its post id.
C26_Original ==
  (qPc = "settle" /\ IsPollText /\ ~dup /\ NoCallFailed) =>
    /\ \E r \in posts :
         r.post_id = CurEvent.id /\ r.has_poll = 1 /\ r.message_text = CurEvent.text
    /\ \E k \in CallsOf("translateMessage") :
         calls[k].arg = IF CurEvent.text = TextPoll THEN PollContentOfTextPoll ELSE <<>>
    /\ \E r \in RepliesFor(CurEvent.id) : r.flex

\* C26 amended: as stated, except that the translation is made only when
\* the text without the marker, trimmed, is not empty; a message of the
\* marker alone is stored and answered with the poll payload, and no
\* translation is asked for.  A text without the marker is stored with
\* has_poll 0 and translated as it is.
C26_PollStoredTranslatedWithoutMarkerAnswered ==
  (qPc = "settle" /\ IsText /\ ~dup /\ NoCallFailed) =>
    IF IsPollText
      THEN /\ \E r \in posts :
                r.post_id = CurEvent.id /\ r.has_poll = 1 /\ r.message_text = CurEvent.text
           /\ CurEvent.text = TextPoll =>
                /\ Cardinality(CallsOf("translateMessage")) = 1
                /\ \A k \in CallsOf("translateMessage") :
                     /\ calls[k].arg = PollContentOfTextPoll
                     /\ \E j \in CallsOf("postCreate") : j < k
                     /\ \E j \in CallsOf("replyMessage") : k < j
           /\ CurEvent.text = TextMarkerOnly => CallsOf("translateMessage") = {}
           /\ CurEvent.text \in {TextPoll, TextMarkerOnly}
           /\ Cardinality(CallsOf("replyMessage")) = 1
           /\ \E r \in RepliesFor(CurEvent.id) : r.flex /\ r.token = CurEvent.replyToken
           /\ ~thrown
      ELSE /\ \E r \in posts :
                r.post_id = CurEvent.id /\ r.has_poll = 0 /\ r.message_text = CurEvent.text
           /\ \A k \in CallsOf("translateMessage") : calls[k].arg = CurEvent.text
           /\ \A r \in RepliesFor(CurEvent.id) : ~r.flex

C26_Witness ==
  /\ qPc = "settle"
  /\ CurEvent.text = TextPoll
  /\ ~dup
  /\ ~thrown
  /\ \E k \in CallsOf("translateMessage") : calls[k].res = "text" /\ calls[k].arg = PollContentOfTextPoll
  /\ \E r \in posts : r.post_id = "M2" /\ r.has_poll = 1 /\ r.message_text = TextPoll
  /\ \E r \in RepliesFor("M2") : r.flex /\ r.text = "translation"

(***************************************************************************)
(* Poll commands and poll payloads (SpecPoll)                              *)
(***************************************************************************)
\* C27 as stated: isPollCommand is true exactly for the texts that hold the
\* marker at some position, in any case of its letters, and parsePollQuestion
\* gives the text without that marker, with the surrounding whitespace
\* trimmed.
C27_PollCommandAnywhereAnyCase ==
  pParse.applied =>
    /\ pParse.isPollCommand <=> (\E p \in 1 .. Len(pParse.text) : MatchAt(pParse.text, p))
    /\ pParse.question = Trim(RemoveMarker(pParse.text))

ReplyButtons == pReply.message.buttons

IsNameText == IsText /\ msgBody.text = TextName

\* C29 as stated: a text message of the form watashi-wa "X", handled with
\* no failing call and a translation, sets the display name of its sender
\* to X, is answered with the translation followed by the confirmation
\* that names X, and is acknowledged.
C29_NameRegistrationUpdatesAndConfirms ==
  (qPc = "settle" /\ IsNameText /\ ~dup /\ NoCallFailed /\ TranslationGave("text")) =>
    /\ \E u \in users : u.user_id = CurEvent.user /\ u.display_name = "X"
    /\ \E r \in RepliesFor(CurEvent.id) :
         ReplyMessages(r) = <<[type |-> "text", text |-> "translation"],
                              [type |-> "text", text |-> "name updated to X"]>>
    /\ ~thrown

(***************************************************************************)
(* Liveness under redelivery (SpecRedelivery)                              *)
(***************************************************************************)
\* C30 as stated: with a queue that delivers again every message that was
\* not acknowledged, and collaborators that fail only finitely often, every
\* message sent to the queue is acknowledged in the end.
InQueue(e) == \E k \in DOMAIN inQueue : inQueue[k] = e

C30_EveryQueuedMessageEventuallyAcked ==
  \A e \in RedeliveryEvents : InQueue(e) ~> ~InQueue(e)

(***************************************************************************)
(* Termination and delay bounds of generateText (SpecGen)                  *)
(***************************************************************************)
\* The calls still possible from a state: the attempts left on the current
\* model plus `retries` calls for each model not yet tried.
CallsLeft ==
  CASE gPc = "idle" -> NumModels * MaxRetries + 1
    [] gPc = "call" -> (NumModels - gModel) * gRetries + (gRetries - gI)
    [] gPc = "wait" -> (NumModels - gModel) * gRetries + (gRetries - gI - 1)
    [] OTHER        -> 0

\* C34: generateText terminates for every sequence of outcomes and every
\* retries >= 1: the number of calls still possible is bounded and every
\* call lowers it, no model gets more than `retries` calls, no more than
\* models x retries calls are made in total, and when generateText throws,
\* the error thrown is the error of the last call made.
C34_TerminatesWithinCallBudget ==
  /\ gPc # "idle" =>
       /\ gRetries >= 1
       /\ \A m \in 1 .. NumModels : Cardinality(CallsTo(m)) <= gRetries
       /\ Len(gLog) <= NumModels * gRetries
       /\ Len(gLog) + CallsLeft <= NumModels * gRetries
       /\ \A k \in DOMAIN gLog : gLog[k].model \in 1 .. NumModels
  /\ gPc \in {"call", "wait"} => CallsLeft >= 1
  /\ gPc = "thrown" =>
       /\ gLog # <<>>
       /\ gResult.kind = "error"
       /\ gResult.call = Len(gLog)
       /\ gLastError.call = Len(gLog)
       /\ gLastError.status = Status(gLog[Len(gLog)].outcome)
  /\ gPc = "returned" => (gResult.kind = "text" /\ gResult.call = Len(gLog))

C34_Witness ==
  /\ gPc = "thrown"
  /\ gRetries >= 2
  /\ Len(gLog) = NumModels * gRetries
  /\ gLog[Len(gLog)].outcome = "e500"

\* C35 as stated: a wait after a 503 lies in the half-open window
\* [2000, 5000), so a wait of 5000 ms never occurs.
C35_Original ==
  (gPc = "wait" /\ gLastError.status = 503) => gDelay \in 2000 .. 4999

\* C35 amended: a wait after a 503 with attempts remaining is an integer
\* number of milliseconds in the closed window [2000, 5000]; after a 500
\* with attempts remaining it is 2^attempt x 1000 ms, the attempt counted
\* from 0; no wait follows a 429 or the last attempt on a model.
C35_WaitsRespectDelayBounds ==
  /\ gPc = "wait" =>
       /\ gLastError.call = Len(gLog)
       /\ gLog[Len(gLog)].attempt = gI
       /\ gI < gRetries - 1
       /\ gLastError.status \in {500, 503}
       /\ gLastError.status = 503 => gDelay \in 2000 .. 5000
       /\ gLastError.status = 500 =>
            gDelay = (CASE gI = 0 -> 1000 [] gI = 1 -> 2000 [] gI = 2 -> 4000
                        [] OTHER -> Pow2(gI) * 1000)
  /\ gPc # "wait" => gDelay = NoDelay
  /\ (gLog # <<>> /\ gLog[Len(gLog)].outcome = "e429") => gPc # "wait"
  /\ (gLog # <<>> /\ gLog[Len(gLog)].attempt = gRetries - 1) => gPc # "wait"

C35_Witness ==
  /\ gPc = "wait"
  /\ gLastError.status = 503
  /\ gDelay = 5000

(***************************************************************************)
(* The translation log and the context section of the prompt               *)
(* (SpecTranslate)                                                         *)
(***************************************************************************)
\* C33: the translation log takes no part in the control flow: when the
\* model returned a text and only createTranslationLog failed,
\* translateMessage still returns that text and stores it as the post's
\* translated text.
C33_LogFailureLeavesOutcomeUnchanged ==
  (tPc \in {"returned", "raised"} /\ tModelText # Null
     /\ tFaults = {"createTranslationLog"}) =>
    /\ tResult = [kind |-> "value", value |-> tModelText]
    /\ tPostText = tModelText

\* C37: the prompt lists the context turns oldest first: the k-th line of
\* the context section carries the number k and the text of the k-th
\* oldest post, the fetched order (newest first) reversed, for every
\* context of 0 to CONTEXT_LIMIT posts.
C37_PromptListsContextOldestFirst ==
  tPc \in {"generate", "log", "update", "debug", "returned"} =>
    /\ Len(tContext) \in 0 .. CONTEXT_LIMIT
    /\ Len(tPrompt.lines) = Len(tContext)
    /\ \A k \in 1 .. Len(tContext) :
         /\ tPrompt.lines[k].number = k
         /\ tPrompt.lines[k].text = tContext[Len(tContext) + 1 - k]
    /\ tPrompt.contextHint <=> (tContext # <<>>)

C37_Witness ==
  /\ tPc = "generate"
  /\ Len(tContext) = CONTEXT_LIMIT
  /\ tContext[1] = "newest"
  /\ tPrompt.lines[1] = [number |-> 1, text |-> "older"]
  /\ tPrompt.lines[CONTEXT_LIMIT] = [number |-> CONTEXT_LIMIT, text |-> "newest"]

(***************************************************************************)
(* Properties of getContext (SpecContext)                                  *)
(***************************************************************************)
ContextRows == {cContext[k] : k \in DOMAIN cContext}

ContextRead == cPc = "idle" /\ cPost # NoPost

\* C32: the context used to translate a message holds only messages that
\* precede it: the post of the message being translated, inserted before
\* translateMessage is called, is never one of its own context turns.
C32_ContextExcludesMessageItself ==
  ContextRead => \A r \in ContextRows : r.post_id # cPost.post_id

\* C36: the context of a message of a room holds only posts of that room,
\* the context of a private message only posts of the same user that have
\* no room, and either has at most CONTEXT_LIMIT posts, all of them stored
\* posts, none twice.
C36_ContextScopedToRoomOrUser ==
  ContextRead =>
    /\ Len(cContext) <= 2
    /\ ContextRows \subseteq cPosts
    /\ Cardinality(ContextRows) = Len(cContext)
    /\ cPost.room_id # Null =>
         \A r \in ContextRows : r.room_id = cPost.room_id
    /\ cPost.room_id = Null =>
         \A r \in ContextRows : r.user_id = cPost.user_id /\ r.room_id = Null

\* A private message of a user who has three posts, one of them in a room:
\* its context is the two private ones.
C36_Witness ==
  /\ ContextRead
  /\ cPost.room_id = Null
  /\ Cardinality({r \in cPosts : r.user_id = cPost.user_id}) = 3
  /\ \E r \in cPosts : r.user_id = cPost.user_id /\ r.room_id # Null
  /\ Len(cContext) = 2

(***************************************************************************)
(* Properties of concurrent deliveries (SpecWorkers)                       *)
(***************************************************************************)
WCalls(op, id) == {c \in wLog : c.op = op /\ c.post = id}

\* C31: over all redeliveries and all interleavings of the workers, at
\* most one replyMessage call is made for a message id, and only a
\* delivery whose post insert succeeded calls translateMessage or
\* replyMessage; the insert succeeds for one delivery of a message at most.
C31_ReplyAtMostOncePerMessage ==
  /\ \A e \in WorkerEvents :
       /\ Cardinality(WCalls("replyMessage", e.id)) <= 1
       /\ Cardinality({c \in WCalls("postCreate", e.id) : c.res = "ok"}) <= 1
  /\ \A c \in wLog :
       c.op \in {"translateMessage", "replyMessage"} =>
         [delivery |-> c.delivery, op |-> "postCreate", res |-> "ok", post |-> c.post] \in wLog
  /\ \A w \in Workers :
       wPc[w] \in {"translate", "pollUpdate", "reply"} =>
         [delivery |-> wBody[w].delivery, op |-> "postCreate", res |-> "ok",
          post |-> WEvent(w).id] \in wLog

\* Two workers handle deliveries of the same message at the same time: one
\* inserted the post and replied, the other started before that reply and
\* failed at the insert.
C31_Witness ==
  /\ \E c \in WCalls("replyMessage", "M2") : c.res = "ok"
  /\ \E c \in WCalls("postCreate", "M2") : c.res = "fail"
  /\ \E w \in Workers : wPc[w] = "settle" /\ wThrown[w] /\ WEvent(w).id = "M2"
  /\ \E w \in Workers : wPc[w] = "settle" /\ ~wThrown[w] /\ WEvent(w).id = "M2"

(***************************************************************************)
(* Properties of the consumer on a database in use (SpecStore)             *)
(***************************************************************************)
HasUserRow(userId) == \E r \in users : r.user_id = userId

C39_EnsureRoomKeepsRoomName ==
  [][(qPc' # qPc) => \A r \in rooms : r \in rooms']_vars

\* C40: every stored vote refers to the id of a stored post flagged as a
\* poll and to a voter that has a users row.
C40_VotesReferToPollAndKnownUser ==
  \A a \in answers :
    /\ \E p \in posts : p.post_id = a.poll_post_id /\ p.has_poll = 1
    /\ HasUserRow(a.user_id)

====
